---- MODULE Spec2Model ----
(***************************************************************************)
(* A model of scripts/build_vocabulary.py: the StarDict index and data     *)
(* readers, the merge of the two source dictionaries, the levelling of the *)
(* merged vocabulary and the control flow of main.                         *)
(*                                                                         *)
(* Text is a sequence of Unicode code points, bytes are numbers 0..255.    *)
(* A Python dict is a sequence of [k, v] records with distinct keys, in    *)
(* insertion order.                                                        *)
(***************************************************************************)
EXTENDS Integers, Sequences, FiniteSets, TLC

VARIABLES
    \* merge_vocabularies and assign_levels
    pc,                \* position of the merge / level pipeline
    armenian_russian,  \* dict: word -> list of Russian translations
    armenian_english,  \* dict: word -> [english, pronunciation]
    iter_order,        \* order in which the set of common keys was iterated
    vocabulary,        \* list of merged entries
    max_per_level,     \* cap handed to assign_levels
    leveled,           \* [A1, A2, B1, B2]: the four tiers
    \* main
    main_pc,           \* the step main runs next, "raised" or "done"
    stardict_present,  \* the three StarDict files exist
    pdf_present,       \* the PDF dictionary exists
    ru_len,            \* len(armenian_russian) in main
    en_len,            \* len(armenian_english) in main
    vocab_len,         \* len(vocabulary) in main
    reached,           \* the steps main has run
    levels_assigned,   \* assign_levels was called
    output_written,    \* vocabulary.json was opened for writing
    \* parse_stardict_idx
    idx_bytes,         \* content of the .idx file
    idx_pos,           \* f.tell()
    entries,           \* list of <<word, offset, size>>
    idx_pc,            \* "read" or "done"
    \* parse_stardict_dict
    dict_file,         \* the data file: [data, gzip, complete]
    cache_hit,         \* use_cache and cache_file.exists()
    dict_entries,      \* the entries argument: list of <<word, offset, size>>
    dict_i,            \* number of entries the loop has finished
    extracted_count,
    skipped_count,
    dict_result,       \* the dict returned: word -> clean_words
    cache_saved,       \* save_to_csv was called
    dict_pc,           \* "start", "loop", "done", "cached" or "aborted"
    \* clean_translation
    text_in,           \* the translation argument
    text_out,          \* the pair returned: [meanings, usage_examples]
    reclean,           \* a returned meaning and what clean_translation returns for it
    clean_pc,          \* "call", "returned" or "again"
    \* calculate_word_complexity
    score_entry,       \* the entry assign_levels scores
    score_out,         \* the complexity returned
    score_pc,          \* "call" or "returned"
    \* parse_pdf_dictionary
    total_pages,       \* len(pdf_doc)
    page_num,          \* pages the loop has finished
    text_dict,         \* the text runs of the page being read: list of [text, y, x]
    armenian_spans,    \* column 1 of the page: list of [text, y, x]
    pronunciation_spans, \* column 2 of the page
    english_spans,     \* column 3 of the page
    arm_i,             \* column-1 words of the page the matching loop has finished
    pronunciation,     \* the pronunciation matched to the last word, or None
    english_text,      \* the gloss matched to the last word, or None
    pdf_words,         \* local armenian_english: word -> [english, pronunciation]
    pdf_result,        \* the dict returned
    pdf_cache_hit,     \* use_cache and cache_file.exists()
    pdf_cache_saved,   \* save_english_dict_to_csv was called
    pdf_pc,            \* "start", "page", "match", "done" or "cached"
    \* the translation cache: save_to_csv and load_from_csv
    fresh_dict,        \* armenian_russian of a run that parses the data file
    cache_csv,         \* the text of the cache file, None while there is none
    cached_dict,       \* what a later run gets from load_from_csv
    csv_pc             \* "parse", "saved", "loaded", "raised" or "reparse"

pipeVars == <<pc, armenian_russian, armenian_english, iter_order,
              vocabulary, max_per_level, leveled>>

mainVars == <<main_pc, stardict_present, pdf_present, ru_len, en_len,
              vocab_len, reached, levels_assigned, output_written>>

idxVars == <<idx_bytes, idx_pos, entries, idx_pc>>

dictVars == <<dict_file, cache_hit, dict_entries, dict_i, extracted_count,
              skipped_count, dict_result, cache_saved, dict_pc>>

cleanVars == <<text_in, text_out, reclean, clean_pc>>

scoreVars == <<score_entry, score_out, score_pc>>

pdfVars == <<total_pages, page_num, text_dict, armenian_spans,
             pronunciation_spans, english_spans, arm_i, pronunciation,
             english_text, pdf_words, pdf_result, pdf_cache_hit,
             pdf_cache_saved, pdf_pc>>

csvVars == <<fresh_dict, cache_csv, cached_dict, csv_pc>>

vars == <<pipeVars, mainVars, idxVars, dictVars, cleanVars, scoreVars, pdfVars, csvVars>>

(***************************************************************************)
(* Generic helpers.                                                        *)
(***************************************************************************)
\* the element of a one-element set.  A stage of a text pipeline is bound as
\* the element of a one-element set, x \in {stage}, so that TLC computes it once
\* however often the rest of the pipeline uses it.
Only(S) == CHOOSE x \in S : TRUE

Range(s) == {s[i] : i \in DOMAIN s}

Min(a, b) == IF a < b THEN a ELSE b

SeqsUpTo(S, n) == UNION {[1..k -> S] : k \in 0..n}

\* the items of s at the positions in P, in the order of s
SubSeqAt(s, P) ==
    [r \in 1..Cardinality(P) |->
        s[CHOOSE i \in P : Cardinality({j \in P : j <= i}) = r]]

\* number of positions of s holding e
CountIn(s, e) == Cardinality({i \in DOMAIN s : s[i] = e})

EndsWith(word, suffix) ==
    /\ Len(suffix) <= Len(word)
    /\ SubSeq(word, Len(word) - Len(suffix) + 1, Len(word)) = suffix

(***************************************************************************)
(* Characters: str.lower() and str.islower() on the Armenian, Cyrillic and  *)
(* Latin letters and on the Kelvin sign U+212A (whose lowercase form is the *)
(* Latin small k); every other code point the model uses maps to itself.    *)
(***************************************************************************)
LowerChar(c) ==
    IF c >= 1329 /\ c <= 1366 THEN c + 48
    ELSE IF c >= 65 /\ c <= 90 THEN c + 32
    ELSE IF c = 8490 THEN 107
    ELSE IF c >= 1024 /\ c <= 1039 THEN c + 80
    ELSE IF c >= 1040 /\ c <= 1071 THEN c + 32
    ELSE IF c >= 1120 /\ c <= 1153 /\ c % 2 = 0 THEN c + 1
    ELSE IF c >= 1162 /\ c <= 1215 /\ c % 2 = 0 THEN c + 1
    ELSE IF c = 1216 THEN 1231
    ELSE IF c >= 1217 /\ c <= 1230 /\ c % 2 = 1 THEN c + 1
    ELSE IF c >= 1232 /\ c <= 1279 /\ c % 2 = 0 THEN c + 1
    ELSE c

IsLowerChar(c) ==
    \/ c >= 1376 /\ c <= 1416
    \/ c >= 97 /\ c <= 122
    \/ c >= 1024 /\ c <= 1279 /\ LowerChar(c) = c /\ ~(c >= 1154 /\ c <= 1161)

\* word.lower()
normalize_armenian_word(word) == [i \in DOMAIN word |-> LowerChar(word[i])]

\* any(c.islower() for c in word)
HasLowercase(word) == \E i \in DOMAIN word : IsLowerChar(word[i])

(***************************************************************************)
(* Binary floating point.  The score is a Python float, an IEEE 754        *)
(* double.  The doubles the score takes are kept exactly, as [t, r] for    *)
(* the number t/10 + r * 2^-56 / 10: t counts tenths and r counts the      *)
(* units 2^-56 / 10 by which the double differs from t/10.  The literal    *)
(* 0.1 is the double 0.1 + 4 * 2^-56 / 10; 2.0, 1.5 and 0.5 are doubles.   *)
(***************************************************************************)
\* the remainder in 0..m-1
Mod(x, m) == ((x % m) + m) % m

SquareMod(x, m) == (x * x) % m

\* 2^56 modulo m, as ((2^7)^2)^2)^2
TwoTo56Mod(m) == SquareMod(SquareMod(SquareMod(128 % m, m), m), m)

\* The doubles of magnitude [2^e, 2^(e+1)) are 2^(e-52) apart, which is
\* 10 * 2^(e+4) units; Spacing is that number of units for the magnitude of
\* a tenths with unit offset r.  10 * 2^k <= 16 * a says 2^(k-4) <= a/10.
Spacing(a, r) ==
    LET ks == {k \in 0..11 : 10 * 2^k <= 16 * a}
        k == CHOOSE i \in ks : \A j \in ks : j <= i
    IN  IF 10 * 2^k = 16 * a /\ r < 0 THEN 10 * 2^(k - 1) ELSE 10 * 2^k

\* round a magnitude to nearest, ties to the even multiple of the spacing:
\* the unit offset of the double nearest to a/10 + r units
RoundOffset(a, r) ==
    LET m == Spacing(a, r)
        above == Mod((a % m) * TwoTo56Mod(m) + r, m)
        odd == Mod((a % (2 * m)) * TwoTo56Mod(2 * m) + r, 2 * m) >= m
    IN  IF 2 * above < m THEN r - above
        ELSE IF 2 * above > m THEN r + m - above
        ELSE IF odd THEN r + m - above
        ELSE r - above

\* the double nearest to the real number x.  A result with t = 0 is the sum
\* of two doubles that nearly cancel, which is a double.
RoundToDouble(x) ==
    IF x.t = 0 THEN x
    ELSE IF x.t > 0 THEN [t |-> x.t, r |-> RoundOffset(x.t, x.r)]
    ELSE [t |-> x.t, r |-> 0 - RoundOffset(0 - x.t, 0 - x.r)]

\* n * 0.1
TimesTenth(n) == RoundToDouble([t |-> n, r |-> 4 * n])

\* x + tenths / 10, for tenths / 10 a double
FloatAdd(x, tenths) == RoundToDouble([t |-> x.t + tenths, r |-> x.r])

\* x < y and x <= y; r is far below 2^56 units, one tenth
FloatLess(x, y) == x.t < y.t \/ (x.t = y.t /\ x.r < y.r)
FloatLE(x, y) == x = y \/ FloatLess(x, y)

(***************************************************************************)
(* calculate_word_complexity.                                              *)
(***************************************************************************)
abstract_suffixes ==
    << <<1400, 1410, 1385, 1397, 1400, 1410, 1398>>,
       <<1377, 1391, 1377, 1398>>,
       <<1377, 1397, 1387, 1398>>,
       <<1377, 1406, 1400, 1408>>,
       <<1377, 1391, 1377, 1398, 1400, 1410, 1385, 1397, 1400, 1410, 1398>> >>

Hyphen == 45

\* mutant: the loop stops at the first suffix that matches
SuffixLoopFirstMatch(score, word, n) ==
    IF \E i \in 1..n : EndsWith(word, abstract_suffixes[i])
    THEN FloatAdd(score, 20) ELSE score

\* lines 647-649: the loop over the first n suffixes
RECURSIVE SuffixLoop(_, _, _)
SuffixLoop(score, word, n) ==
    IF n = 0 THEN score
    ELSE Only({ IF EndsWith(word, abstract_suffixes[n]) THEN FloatAdd(before, 20)
                ELSE before
                : before \in {SuffixLoop(score, word, n - 1)} })

\* mutant: a word of exactly 15 characters counts as long
IsCompoundFrom15(word) ==
    (\E i \in DOMAIN word : word[i] = Hyphen) \/ Len(word) >= 15

\* line 652
IsCompound(word) ==
    (\E i \in DOMAIN word : word[i] = Hyphen) \/ Len(word) > 15

calculate_word_complexity(word, has_pronunciation) ==
    Only({ Only({ Only({ IF has_pronunciation THEN FloatAdd(compound, -5) ELSE compound
                         : compound \in {IF IsCompound(word) THEN FloatAdd(suffixed, 15)
                                         ELSE suffixed} })
                  : suffixed \in {SuffixLoop(length, word, Len(abstract_suffixes))} })
           : length \in {TimesTenth(Len(word))} })

\* 'spell' in entry and entry['spell']
HasPronunciation(entry) ==
    "spell" \in DOMAIN entry /\ entry.spell # ""

EntryScore(entry) == calculate_word_complexity(entry.am, HasPronunciation(entry))

(***************************************************************************)
(* assign_levels.                                                          *)
(***************************************************************************)
\* mutant: an entry is put before the entries of equal score
InsertBeforeEqual(sorted, entry) ==
    LET score == EntryScore(entry)
        before == {i \in DOMAIN sorted : FloatLess(EntryScore(sorted[i]), score)}
        k == IF before = {} THEN 0 ELSE CHOOSE i \in before : \A j \in before : j <= i
    IN  SubSeq(sorted, 1, k) \o <<entry>> \o SubSeq(sorted, k + 1, Len(sorted))

\* list.sort(key=score): a stable sort, built by inserting each entry after
\* every entry whose score is not greater.
InsertByScore(sorted, entry) ==
    LET score == EntryScore(entry)
        before == {i \in DOMAIN sorted : FloatLE(EntryScore(sorted[i]), score)}
        k == IF before = {} THEN 0 ELSE CHOOSE i \in before : \A j \in before : j <= i
    IN  SubSeq(sorted, 1, k) \o <<entry>> \o SubSeq(sorted, k + 1, Len(sorted))

RECURSIVE SortPrefix(_, _)
SortPrefix(list, n) ==
    IF n = 0 THEN <<>> ELSE InsertByScore(SortPrefix(list, n - 1), list[n])

SortByComplexity(list) == SortPrefix(list, Len(list))

EmptyLevels == [A1 |-> <<>>, A2 |-> <<>>, B1 |-> <<>>, B2 |-> <<>>]

PerLevel(total, cap) == Min(total \div 4, cap)

\* the tier that receives an entry in the overflow branch
RoundRobinLevel(i) ==
    IF i % 4 = 0 THEN "A1"
    ELSE IF i % 4 = 1 THEN "A2"
    ELSE IF i % 4 = 2 THEN "B1"
    ELSE "B2"

\* mutant: the overflow branch has no final else, entries with i % 4 = 3 are lost
PlaceEntryLossy(lv, i, entry, per_level) ==
    IF Len(lv.A1) < per_level THEN [lv EXCEPT !.A1 = Append(@, entry)]
    ELSE IF Len(lv.A2) < per_level THEN [lv EXCEPT !.A2 = Append(@, entry)]
    ELSE IF Len(lv.B1) < per_level THEN [lv EXCEPT !.B1 = Append(@, entry)]
    ELSE IF Len(lv.B2) < per_level THEN [lv EXCEPT !.B2 = Append(@, entry)]
    ELSE IF i % 4 = 3 THEN lv
    ELSE [lv EXCEPT ![RoundRobinLevel(i)] = Append(@, entry)]

\* mutant: every overflow entry goes to the last tier
PlaceEntryOverflowLast(lv, i, entry, per_level) ==
    IF Len(lv.A1) < per_level THEN [lv EXCEPT !.A1 = Append(@, entry)]
    ELSE IF Len(lv.A2) < per_level THEN [lv EXCEPT !.A2 = Append(@, entry)]
    ELSE IF Len(lv.B1) < per_level THEN [lv EXCEPT !.B1 = Append(@, entry)]
    ELSE [lv EXCEPT !.B2 = Append(@, entry)]

\* mutant: round-robin from the first entry on, the per-tier fill is skipped
PlaceEntryRoundRobinOnly(lv, i, entry, per_level) ==
    [lv EXCEPT ![RoundRobinLevel(i)] = Append(@, entry)]

\* one iteration of the loop over enumerate(vocabulary_with_scores); i is 0-based
PlaceEntry(lv, i, entry, per_level) ==
    IF Len(lv.A1) < per_level THEN [lv EXCEPT !.A1 = Append(@, entry)]
    ELSE IF Len(lv.A2) < per_level THEN [lv EXCEPT !.A2 = Append(@, entry)]
    ELSE IF Len(lv.B1) < per_level THEN [lv EXCEPT !.B1 = Append(@, entry)]
    ELSE IF Len(lv.B2) < per_level THEN [lv EXCEPT !.B2 = Append(@, entry)]
    ELSE [lv EXCEPT ![RoundRobinLevel(i)] = Append(@, entry)]

RECURSIVE LevelLoop(_, _, _)
LevelLoop(sorted, n, per_level) ==
    IF n = 0 THEN EmptyLevels
    ELSE PlaceEntry(LevelLoop(sorted, n - 1, per_level), n - 1, sorted[n], per_level)

assign_levels(list, cap) ==
    LET sorted == SortByComplexity(list)
    IN  LevelLoop(sorted, Len(sorted), PerLevel(Len(sorted), cap))

(***************************************************************************)
(* merge_vocabularies.                                                     *)
(***************************************************************************)
Keys(dict) == {dict[i].k : i \in DOMAIN dict}

\* keys of {k.lower(): (k, v) for k, v in dict.items()}
NormalizedKeys(dict) == {normalize_armenian_word(dict[i].k) : i \in DOMAIN dict}

\* value of the comprehension at normalized_word: a later key with the same
\* lowercase form overwrites an earlier one
NormalizedItem(dict, normalized_word) ==
    LET hits == {i \in DOMAIN dict : normalize_armenian_word(dict[i].k) = normalized_word}
    IN  dict[CHOOSE i \in hits : \A j \in hits : j <= i]

\* set(russian_normalized.keys()) & set(english_normalized.keys())
CommonWords(ru, en) == NormalizedKeys(ru) \cap NormalizedKeys(en)

\* list(dict.fromkeys(list)): first occurrences, in order
RECURSIVE DedupPrefix(_, _)
DedupPrefix(list, n) ==
    IF n = 0 THEN <<>>
    ELSE LET rest == DedupPrefix(list, n - 1)
         IN  IF list[n] \in Range(rest) THEN rest ELSE Append(rest, list[n])

Dedup(list) == DedupPrefix(list, Len(list))

\* mutant: the spelling of the Russian source wins whenever it has lowercase
ChooseSpellingRussianFirst(armenian_word_ru, armenian_word_en) ==
    IF HasLowercase(armenian_word_ru) THEN armenian_word_ru ELSE armenian_word_en

\* lines 758-761
ChooseSpelling(armenian_word_ru, armenian_word_en) ==
    IF HasLowercase(armenian_word_en) THEN armenian_word_en ELSE armenian_word_ru

\* mutant: a key without English translations still produces an entry
MergeEntryKeepEmpty(ru, en, normalized_word) ==
    LET r == NormalizedItem(ru, normalized_word)
        e == NormalizedItem(en, normalized_word)
    IN  << [am |-> ChooseSpelling(r.k, e.k), ru |-> r.v, en |-> Dedup(e.v.english)] >>

\* the body of the loop for one common key: the entries it appends (none or one)
MergeEntry(ru, en, normalized_word) ==
    LET r == NormalizedItem(ru, normalized_word)
        e == NormalizedItem(en, normalized_word)
        armenian_word == ChooseSpelling(r.k, e.k)
        base == [am |-> armenian_word, ru |-> r.v, en |-> Dedup(e.v.english)]
    IN  IF e.v.english = <<>> THEN <<>>
        ELSE IF e.v.pronunciation # ""
             THEN << [am |-> armenian_word, ru |-> r.v, en |-> Dedup(e.v.english),
                      spell |-> e.v.pronunciation] >>
             ELSE << base >>

RECURSIVE MergeLoop(_, _, _, _)
MergeLoop(ru, en, order, n) ==
    IF n = 0 THEN <<>>
    ELSE MergeLoop(ru, en, order, n - 1) \o MergeEntry(ru, en, order[n])

\* merge_vocabularies with the set of common keys iterated in the given order
merge_vocabularies(ru, en, order) == MergeLoop(ru, en, order, Len(order))

\* the orders in which a set can be iterated
IterationOrders(S) ==
    {o \in [1..Cardinality(S) -> S] : \A i, j \in DOMAIN o : i # j => o[i] # o[j]}

(***************************************************************************)
(* Text helpers: the character classes of the regular expressions and the  *)
(* str methods clean_translation uses.                                     *)
(***************************************************************************)
\* \s and str.isspace()
IsSpace(c) ==
    c \in {9, 10, 11, 12, 13, 28, 29, 30, 31, 32, 133, 160, 5760,
           8232, 8233, 8239, 8287, 12288}
    \/ (c >= 8192 /\ c <= 8202)

\* \d on the digits the model uses: ASCII, Arabic-Indic
IsDigit(c) == (c >= 48 /\ c <= 57) \/ (c >= 1632 /\ c <= 1641)

\* [ա-ֆԱ-Ֆ]
IsArmenianLetter(c) == (c >= 1377 /\ c <= 1414) \/ (c >= 1329 /\ c <= 1366)

\* [԰-֏Ա-Ֆ]
IsArmenianBlock(c) == c >= 1328 /\ c <= 1423

\* [Ѐ-ӿa-zA-Z]
IsTargetLetter(c) ==
    (c >= 1024 /\ c <= 1279) \/ (c >= 97 /\ c <= 122) \/ (c >= 65 /\ c <= 90)

\* [Ѐ-ӿa-zA-Z\s,\.;:!?\-]
IsRunChar(c) == IsTargetLetter(c) \/ IsSpace(c) \/ c \in {44, 46, 59, 58, 33, 63, 45}

\* '.,;:!?'
IsTrailingPunctuation(c) == c \in {46, 44, 59, 58, 33, 63}

IsDot(c) == c = 46

\* character c belongs to the named class
InClass(class, c) ==
    CASE class = "space" -> IsSpace(c)
      [] class = "digit" -> IsDigit(c)
      [] class = "armenian_letter" -> IsArmenianLetter(c)
      [] class = "not_armenian" -> ~IsArmenianBlock(c)
      [] class = "run" -> IsRunChar(c)
      [] class = "dot" -> IsDot(c)
      [] class = "punctuation" -> IsTrailingPunctuation(c)

\* the first index at or after i whose character is not in the class
SkipWhile(s, i, class) ==
    LET stops == {j \in i..Len(s) : ~InClass(class, s[j])}
    IN  IF stops = {} THEN Len(s) + 1 ELSE CHOOSE j \in stops : \A k \in stops : j <= k

\* the last index at or before i whose character is not in the class, 0 if none
SkipBackWhile(s, i, class) ==
    LET stops == {j \in 1..i : ~InClass(class, s[j])}
    IN  IF stops = {} THEN 0 ELSE CHOOSE j \in stops : \A k \in stops : k <= j

\* the first index at or after i holding character c, 0 if none
IndexOf(s, i, c) ==
    LET hits == {j \in i..Len(s) : s[j] = c}
    IN  IF hits = {} THEN 0 ELSE CHOOSE j \in hits : \A k \in hits : j <= k

\* str.lstrip(), str.rstrip(), str.strip()
LStrip(s) == SubSeq(s, SkipWhile(s, 1, "space"), Len(s))
RStrip(s) == SubSeq(s, 1, SkipBackWhile(s, Len(s), "space"))
Strip(s) == Only({RStrip(left) : left \in {LStrip(s)}})

\* str.lower()
Lower(s) == [i \in DOMAIN s |-> LowerChar(s[i])]

\* len(s.split())
WordCount(s) ==
    Cardinality({i \in DOMAIN s : ~IsSpace(s[i]) /\ (i = 1 \/ IsSpace(s[i - 1]))})

\* <[^>]+>
TagEnd(s, i) ==
    LET close == IndexOf(s, i + 1, 62)
    IN  IF s[i] = 60 /\ close > i + 1 THEN close + 1 ELSE 0

\* \([^)]*\)   \[[^\]]*\]   \{[^}]*\}
ParenEnd(s, i) ==
    IF s[i] = 40 /\ IndexOf(s, i + 1, 41) > 0 THEN IndexOf(s, i + 1, 41) + 1 ELSE 0

BracketEnd(s, i) ==
    IF s[i] = 91 /\ IndexOf(s, i + 1, 93) > 0 THEN IndexOf(s, i + 1, 93) + 1 ELSE 0

BraceEnd(s, i) ==
    IF s[i] = 123 /\ IndexOf(s, i + 1, 125) > 0 THEN IndexOf(s, i + 1, 125) + 1 ELSE 0

\* [ա-ֆԱ-Ֆ]{1,3}\.\s*  : one to three Armenian letters, a period, any spaces
WordTypeEnd(s, i) ==
    LET letters == SkipWhile(s, i, "armenian_letter")
    IN  IF /\ letters > i
           /\ letters - i <= 3
           /\ letters <= Len(s)
           /\ s[letters] = 46
        THEN SkipWhile(s, letters + 1, "space")
        ELSE 0

\* the index after the match of the pattern that starts at i, 0 when there is none
MatchEnd(pattern, s, i) ==
    CASE pattern = "tag" -> TagEnd(s, i)
      [] pattern = "paren" -> ParenEnd(s, i)
      [] pattern = "bracket" -> BracketEnd(s, i)
      [] pattern = "brace" -> BraceEnd(s, i)
      [] pattern = "word_type" -> WordTypeEnd(s, i)

\* re.sub(pattern, '', s), from index i on
RECURSIVE DeleteMatchesFrom(_, _, _)
DeleteMatchesFrom(s, i, pattern) ==
    IF i > Len(s) THEN <<>>
    ELSE LET e == MatchEnd(pattern, s, i)
         IN  IF e > 0 THEN DeleteMatchesFrom(s, e, pattern)
             ELSE <<s[i]>> \o DeleteMatchesFrom(s, i + 1, pattern)

DeleteMatches(text, pattern) == Only({DeleteMatchesFrom(s, 1, pattern) : s \in {text}})

\* \s*\d+\.\s+
NumberMarkEnd(s, i) ==
    LET digits == SkipWhile(s, i, "space")
        dot == SkipWhile(s, digits, "digit")
        after == SkipWhile(s, dot + 1, "space")
    IN  IF dot > digits /\ dot <= Len(s) /\ s[dot] = 46 /\ after > dot + 1
        THEN after ELSE 0

\* re.split(r'\s*\d+\.\s+', s): current is the piece collected so far
RECURSIVE SplitNumberedFrom(_, _, _)
SplitNumberedFrom(s, i, current) ==
    IF i > Len(s) THEN <<current>>
    ELSE LET e == NumberMarkEnd(s, i)
         IN  IF e > 0 THEN <<current>> \o SplitNumberedFrom(s, e, <<>>)
             ELSE SplitNumberedFrom(s, i + 1, Append(current, s[i]))

SplitNumbered(text) == Only({SplitNumberedFrom(s, 1, <<>>) : s \in {text}})

\* re.findall of  [L][L\s,\.;:!?\-]*[L]|[L]+  with L = [Ѐ-ӿa-zA-Z]:
\* from a letter up to the last letter of the run of letters, spaces and
\* punctuation that starts there
RECURSIVE TargetRunsFrom(_, _)
TargetRunsFrom(s, i) ==
    IF i > Len(s) THEN <<>>
    ELSE IF IsTargetLetter(s[i])
    THEN LET stop == SkipWhile(s, i, "run")
             last == CHOOSE j \in i..(stop - 1) :
                        /\ IsTargetLetter(s[j])
                        /\ \A k \in (j + 1)..(stop - 1) : ~IsTargetLetter(s[k])
         IN  <<SubSeq(s, i, last)>> \o TargetRunsFrom(s, last + 1)
    ELSE TargetRunsFrom(s, i + 1)

TargetRuns(text) == Only({TargetRunsFrom(s, 1) : s \in {text}})

\* ' '.join(list)
RECURSIVE JoinSpace(_)
JoinSpace(list) ==
    IF list = <<>> THEN <<>>
    ELSE IF Len(list) = 1 THEN list[1]
    ELSE list[1] \o <<32>> \o JoinSpace(Tail(list))

\* re.sub(r'^\.+\s*', '', s)
DropLeadingDots(s) ==
    IF s # <<>> /\ s[1] = 46
    THEN SubSeq(s, SkipWhile(s, SkipWhile(s, 1, "dot"), "space"), Len(s))
    ELSE s

\* s.rstrip('.,;:!?')
RStripPunctuation(s) == SubSeq(s, 1, SkipBackWhile(s, Len(s), "punctuation"))

\* lines 146-150 and 203-207: strip, drop the leading periods, strip the
\* trailing punctuation, strip
Trim(text) ==
    Only({ Only({Strip(RStripPunctuation(undotted))
                  : undotted \in {DropLeadingDots(stripped)}})
           : stripped \in {Strip(text)} })

\* a pattern is a sequence of literals [lit |-> text] and gaps [gap |-> TRUE] (\s+);
\* the pattern matches s at index i
RECURSIVE MatchesAt(_, _, _)
MatchesAt(s, i, pattern) ==
    IF pattern = <<>> THEN TRUE
    ELSE LET h == Head(pattern)
         IN  IF "lit" \in DOMAIN h
             THEN /\ i + Len(h.lit) - 1 <= Len(s)
                  /\ SubSeq(s, i, i + Len(h.lit) - 1) = h.lit
                  /\ MatchesAt(s, i + Len(h.lit), Tail(pattern))
             ELSE /\ i <= Len(s)
                  /\ IsSpace(s[i])
                  /\ MatchesAt(s, SkipWhile(s, i, "space"), Tail(pattern))

\* re.search(pattern, s)
Search(s, pattern) == \E i \in 1..(Len(s) + 1) : MatchesAt(s, i, pattern)

Gap == [gap |-> TRUE]
Lit(text) == [lit |-> text]

Eto == <<1101, 1090, 1086>>
Yest == <<1077, 1089, 1090, 1100>>

\* lines 168-175; (и\s+)? is written out as its two cases
usage_patterns ==
    { <<Lit(Eto), Gap, Lit(Yest)>>,
      <<Lit(Eto), Gap, Lit(<<1080>>), Gap, Lit(Yest)>>,
      <<Lit(Eto), Gap, Lit(Yest), Gap, Lit(<<1085, 1072, 1096>>)>>,
      <<Lit(Eto), Gap, Lit(Yest), Gap, Lit(<<1077, 1075, 1086>>)>>,
      <<Lit(<<1078, 1077, 1083, 1072, 1085, 1080, 1077>>)>>,
      <<Lit(<<1087, 1086, 1089, 1083, 1077, 1076, 1085, 1080, 1081>>), Gap,
        Lit(<<1073, 1086, 1081>>)>> }

\* lines 212-217
fallback_usage_patterns ==
    { <<Lit(Eto), Gap, Lit(Yest)>>,
      <<Lit(Eto), Gap, Lit(<<1080>>), Gap, Lit(Yest)>>,
      <<Lit(Eto), Gap, Lit(Yest), Gap, Lit(<<1085, 1072, 1096>>)>>,
      <<Lit(Eto), Gap, Lit(Yest), Gap, Lit(<<1077, 1075, 1086>>)>> }

(***************************************************************************)
(* clean_translation.  The loop body over the numbered parts is written    *)
(* stage by stage, last stage first; each returns the meanings the part    *)
(* contributes, none or one.                                               *)
(***************************************************************************)
\* mutant: the usage patterns are searched in the text as extracted, not in
\* its lowercase form
MeaningOfExtractedCaseSensitive(extracted) ==
    IF Len(extracted) < 2 THEN <<>>
    ELSE IF ~\E i \in DOMAIN extracted : IsTargetLetter(extracted[i]) THEN <<>>
    ELSE IF \/ \E pattern \in usage_patterns : Search(extracted, pattern)
            \/ WordCount(extracted) > 4
         THEN <<>>
         ELSE << Lower(extracted) >>

\* lines 152-194
MeaningOfExtracted(extracted) ==
    IF Len(extracted) < 2 THEN <<>>
    ELSE IF ~\E i \in DOMAIN extracted : IsTargetLetter(extracted[i]) THEN <<>>
    ELSE Only({ IF \/ \E pattern \in usage_patterns : Search(extracted_lower, pattern)
                   \/ WordCount(extracted) > 4
                THEN <<>>
                ELSE << extracted_lower >>
                : extracted_lower \in {Lower(extracted)} })

\* lines 140-150
MeaningOfMainPart(main_part) ==
    Only({ IF russian_english_text = <<>> THEN <<>>
           ELSE Only({MeaningOfExtracted(extracted)
                       : extracted \in {Trim(JoinSpace(russian_english_text))}})
           : russian_english_text \in {TargetRuns(main_part)} })

\* lines 123-136
MeaningOfPart(part) ==
    Only({ IF before_armenian = <<>> THEN <<>>
           ELSE Only({ IF main_part = <<>> THEN <<>> ELSE MeaningOfMainPart(main_part)
                       : main_part \in
                           {Strip(DeleteMatches(
                                    DeleteMatches(
                                      DeleteMatches(before_armenian, "paren"),
                                      "bracket"),
                                    "brace"))} })
           : before_armenian \in
               {Strip(SubSeq(part, 1, SkipWhile(part, 1, "not_armenian") - 1))} })

\* lines 105-111
PartMeaning(numbered_part) ==
    Only({ IF stripped = <<>> THEN <<>>
           ELSE Only({MeaningOfPart(part)
                       : part \in {DeleteMatches(stripped, "word_type")}})
           : stripped \in {Strip(numbered_part)} })

\* lines 102-194
RECURSIVE PartMeaningsFrom(_, _)
PartMeaningsFrom(numbered_parts, i) ==
    IF i > Len(numbered_parts) THEN <<>>
    ELSE PartMeaning(numbered_parts[i]) \o PartMeaningsFrom(numbered_parts, i + 1)

PartMeanings(list) == Only({PartMeaningsFrom(numbered_parts, 1) : numbered_parts \in {list}})

\* lines 202-226: the meanings one segment of the fallback contributes
SegmentMeaning(raw_segment) ==
    Only({ IF /\ Len(segment) >= 2
              /\ ~\E i \in DOMAIN segment : IsArmenianBlock(segment[i])
              /\ ~\E pattern \in fallback_usage_patterns : Search(Lower(segment), pattern)
              /\ ~(WordCount(segment) > 5)
           THEN << Lower(segment) >>
           ELSE <<>>
           : segment \in {Trim(raw_segment)} })

RECURSIVE SegmentMeaningsFrom(_, _)
SegmentMeaningsFrom(segments, i) ==
    IF i > Len(segments) THEN <<>>
    ELSE SegmentMeaning(segments[i]) \o SegmentMeaningsFrom(segments, i + 1)

SegmentMeanings(list) == Only({SegmentMeaningsFrom(segments, 1) : segments \in {list}})

\* lines 228-235: first occurrences, compared in lowercase
RECURSIVE UniqueFrom(_, _)
UniqueFrom(meanings, i) ==
    IF i > Len(meanings) THEN <<>>
    ELSE (IF \E j \in 1..(i - 1) : Lower(meanings[j]) = Lower(meanings[i])
          THEN <<>> ELSE << meanings[i] >>)
         \o UniqueFrom(meanings, i + 1)

Unique(list) == Only({UniqueFrom(meanings, 1) : meanings \in {list}})

\* lines 96-100
NumberedParts(translation_part) ==
    Only({ IF Strip(split[1]) = <<>> THEN Tail(split) ELSE split
           : split \in {SplitNumbered(translation_part)} })

\* lines 96-237
CleanTranslationPart(translation_part, usage_examples) ==
    Only({ [meanings |->
              Unique(IF numbered = <<>> /\ translation_part # <<>>
                     THEN SegmentMeanings(TargetRuns(translation_part))
                     ELSE numbered),
            usage_examples |-> usage_examples]
           : numbered \in {PartMeanings(NumberedParts(translation_part))} })

\* lines 90-92
SplitAtLozenge(no_tags) ==
    LET lozenge == IndexOf(no_tags, 1, 9674)
    IN  IF lozenge = 0
        THEN CleanTranslationPart(Strip(no_tags), <<>>)
        ELSE Only({ CleanTranslationPart(translation_part, usage_examples)
                    : translation_part \in {Strip(SubSeq(no_tags, 1, lozenge - 1))},
                      usage_examples \in {Strip(SubSeq(no_tags, lozenge + 1, Len(no_tags)))} })

clean_translation(translation) ==
    IF translation = <<>>
    THEN [meanings |-> <<>>, usage_examples |-> <<>>]
    ELSE Only({SplitAtLozenge(no_tags) : no_tags \in {DeleteMatches(translation, "tag")}})

(***************************************************************************)
(* bytes.decode('utf-8'): the code points of a byte string, or a failure   *)
(* (UnicodeDecodeError) when the bytes are not well-formed UTF-8.          *)
(***************************************************************************)
Utf8Failure == [ok |-> FALSE, text |-> <<>>]

\* number of continuation bytes after lead byte c, -1 when c cannot lead
Utf8Trail(c) ==
    IF c < 128 THEN 0
    ELSE IF c >= 194 /\ c <= 223 THEN 1
    ELSE IF c >= 224 /\ c <= 239 THEN 2
    ELSE IF c >= 240 /\ c <= 244 THEN 3
    ELSE -1

IsContinuation(c) == c >= 128 /\ c <= 191

\* the sequence starting at i is well formed: no overlong form, no surrogate,
\* nothing above U+10FFFF
Utf8WellFormedAt(bytes, i) ==
    LET c == bytes[i]
        n == Utf8Trail(c)
    IN  /\ n >= 0
        /\ i + n <= Len(bytes)
        /\ \A j \in 1..n : IsContinuation(bytes[i + j])
        /\ (c = 224 => bytes[i + 1] >= 160)
        /\ (c = 237 => bytes[i + 1] <= 159)
        /\ (c = 240 => bytes[i + 1] >= 144)
        /\ (c = 244 => bytes[i + 1] <= 143)

Utf8CodePoint(bytes, i) ==
    LET c == bytes[i]
        n == Utf8Trail(c)
    IN  IF n = 0 THEN c
        ELSE IF n = 1 THEN (c - 192) * 64 + (bytes[i + 1] - 128)
        ELSE IF n = 2 THEN ((c - 224) * 64 + (bytes[i + 1] - 128)) * 64
                           + (bytes[i + 2] - 128)
        ELSE (((c - 240) * 64 + (bytes[i + 1] - 128)) * 64
              + (bytes[i + 2] - 128)) * 64 + (bytes[i + 3] - 128)

RECURSIVE Utf8DecodeFrom(_, _)
Utf8DecodeFrom(bytes, i) ==
    IF i > Len(bytes) THEN [ok |-> TRUE, text |-> <<>>]
    ELSE IF ~Utf8WellFormedAt(bytes, i) THEN Utf8Failure
    ELSE LET rest == Utf8DecodeFrom(bytes, i + Utf8Trail(bytes[i]) + 1)
         IN  IF rest.ok
             THEN [ok |-> TRUE, text |-> <<Utf8CodePoint(bytes, i)>> \o rest.text]
             ELSE Utf8Failure

Utf8Decode(bytes) == Utf8DecodeFrom(bytes, 1)

(***************************************************************************)
(* parse_stardict_idx.                                                     *)
(***************************************************************************)
\* An unsigned 32-bit number is kept as its two 16-bit halves, [hi, lo] for
\* hi * 65536 + lo: the numbers of an index reach 2^32 - 1.
\* mutant: the four bytes are read least significant first
UnpackLittleEndian(b) == [hi |-> b[4] * 256 + b[3], lo |-> b[2] * 256 + b[1]]

\* struct.unpack('>I', b)[0]
UnpackBigEndian(b) == [hi |-> b[1] * 256 + b[2], lo |-> b[3] * 256 + b[4]]

\* f.read(n) at position pos: the bytes read (fewer than n at the end of file)
FileRead(bytes, pos, n) == SubSeq(bytes, pos + 1, Min(pos + n, Len(bytes)))

\* the inner loop, lines 320-328: bytes are read one at a time up to a NUL;
\* eof is set when the file ends first
RECURSIVE ReadWord(_, _, _)
ReadWord(bytes, pos, word_bytes) ==
    LET byte == FileRead(bytes, pos, 1)
    IN  IF byte = <<>> THEN [eof |-> TRUE, word_bytes |-> word_bytes, pos |-> pos]
        ELSE IF byte = <<0>>
             THEN [eof |-> FALSE, word_bytes |-> word_bytes, pos |-> pos + 1]
        ELSE ReadWord(bytes, pos + 1, word_bytes \o byte)

(***************************************************************************)
(* parse_stardict_dict.                                                    *)
(***************************************************************************)
\* bytes.decode('utf-8', errors='ignore'): every byte that does not begin a
\* well-formed sequence is dropped
RECURSIVE DecodeIgnoreFrom(_, _)
DecodeIgnoreFrom(bytes, i) ==
    IF i > Len(bytes) THEN <<>>
    ELSE IF Utf8WellFormedAt(bytes, i)
    THEN <<Utf8CodePoint(bytes, i)>>
         \o DecodeIgnoreFrom(bytes, i + Utf8Trail(bytes[i]) + 1)
    ELSE DecodeIgnoreFrom(bytes, i + 1)

DecodeIgnore(data) == Only({DecodeIgnoreFrom(bytes, 1) : bytes \in {data}})

\* an unsigned 32-bit number kept as halves, cut to limit + 1 when it is larger
Clip(number, limit) ==
    IF number.hi > 0 THEN limit + 1 ELSE Min(number.lo, limit + 1)

\* f.seek(offset); f.read(size), lines 387-388.  A file read with open, or a
\* complete gzip stream, yields the bytes present in the range, none past the
\* end.  A gzip stream that ends before its end-of-stream marker yields the
\* range when all of it can be decompressed, and gzip raises EOFError when
\* the seek or the read has to go past the decompressible data.
SeekRead(file, offset, size) ==
    LET limit == Len(file.data)
        from == Clip(offset, limit)
        count == Clip(size, limit)
        upto == Min(from + count, limit)
    IN  IF file.gzip /\ ~file.complete /\ from + count > limit
        THEN [raised |-> "EOFError", data |-> <<>>]
        ELSE [raised |-> "none",
              data |-> IF from >= upto THEN <<>> ELSE SubSeq(file.data, from + 1, upto)]

\* line 411: except (UnicodeDecodeError, IndexError, OSError, struct.error)
CaughtInLoop(exception) ==
    exception \in {"UnicodeDecodeError", "IndexError", "OSError", "struct.error"}

\* d[key] = value on a dict kept as a sequence of items
SetItem(d, key, value) ==
    IF \E i \in DOMAIN d : d[i].k = key
    THEN [i \in DOMAIN d |-> IF d[i].k = key THEN [k |-> key, v |-> value] ELSE d[i]]
    ELSE Append(d, [k |-> key, v |-> value])

\* lines 390-410: what the body of the loop does with the bytes read
Skipped == [extracted |-> FALSE, clean_words |-> <<>>]

EntryOutcome(data) ==
    IF Len(data) <= 1 THEN Skipped
    ELSE Only({ IF translation_raw = <<>> THEN Skipped
                ELSE Only({ IF clean_words # <<>>
                            THEN [extracted |-> TRUE, clean_words |-> clean_words]
                            ELSE Skipped
                            : clean_words \in {clean_translation(translation_raw).meanings} })
                : translation_raw \in {Strip(DecodeIgnore(Tail(data)))} })

(***************************************************************************)
(* Inputs.                                                                 *)
(***************************************************************************)
MaxVocab == 5
MaxCap == 2
MaxDict == 2

DefaultMaxPerLevel == 2500

Tun == <<1407, 1400, 1410, 1398>>
TunTitle == <<1359, 1400, 1410, 1398>>
Shun == <<1399, 1400, 1410, 1398>>
Azgayin == <<1377, 1382, 1379, 1377, 1397, 1387, 1398>>
LatinK == <<75>>
KelvinK == <<8490>>
SmallK == <<107>>

\* entries handed to assign_levels: two with the same score, one more complex
EntryTun == [am |-> Tun, ru |-> <<"dom">>, en |-> <<"house">>, spell |-> "tun"]
EntryShun == [am |-> Shun, ru |-> <<"sobaka">>, en |-> <<"dog">>, spell |-> "shun"]
EntryAzgayin == [am |-> Azgayin, ru |-> <<"nacionalnyj">>, en |-> <<"national">>]

LevelPool == {EntryTun, EntryShun, EntryAzgayin}

\* ten entries, for the cap of two per tier
ScenarioVocabulary ==
    <<EntryAzgayin, EntryTun, EntryShun, EntryAzgayin, EntryTun,
      EntryShun, EntryTun, EntryAzgayin, EntryShun, EntryTun>>

\* keys of the two sources: spellings that differ in case only (Տուն / տուն,
\* K / k, and the Kelvin sign, whose lowercase form is k too) and a second word
RussianWords == {TunTitle, Shun, KelvinK, SmallK}
EnglishWords == {Tun, Shun, LatinK, SmallK}

RussianValues == {<<"dom">>}

EnglishValues ==
    { [english |-> <<>>, pronunciation |-> ""],
      [english |-> <<"house">>, pronunciation |-> "tun"],
      [english |-> <<"home", "building", "home">>, pronunciation |-> ""] }

\* index files: whole records followed by the beginning of one more
MaxIdxRecords == 2

IdxWords == {<<97, 98, 99>>, <<213, 161>>, <<255>>}
IdxOffsets == {<<0, 0, 0, 5>>, <<1, 2, 3, 4>>}
IdxSizes == {<<0, 0, 0, 3>>}

IdxRecordBytes == {w \o <<0>> \o o \o z : w \in IdxWords, o \in IdxOffsets, z \in IdxSizes}

IdxTails == {SubSeq(r, 1, k) : r \in IdxRecordBytes, k \in 0..8}

RECURSIVE Flatten(_)
Flatten(ss) == IF ss = <<>> THEN <<>> ELSE Head(ss) \o Flatten(Tail(ss))

IdxFiles == {Flatten(rs) \o t : rs \in SeqsUpTo(IdxRecordBytes, MaxIdxRecords), t \in IdxTails}

\* data files: four blobs, each a type byte and two bytes of text:
\* 'aa', two spaces, '1.', and the byte FF before 'a'
MaxDictEntries == 2

DictData == <<109, 97, 97,  109, 32, 32,  109, 49, 46,  109, 255, 97>>

DictFiles ==
    { [data |-> DictData, gzip |-> TRUE, complete |-> TRUE],
      [data |-> DictData, gzip |-> FALSE, complete |-> TRUE],
      [data |-> SubSeq(DictData, 1, 6), gzip |-> TRUE, complete |-> FALSE] }

Small(n) == [hi |-> 0, lo |-> n]

DictRanges ==
    { <<Small(0), Small(3)>>, <<Small(3), Small(3)>>, <<Small(6), Small(3)>>,
      <<Small(9), Small(3)>>, <<Small(0), Small(1)>>, <<Small(0), Small(0)>>,
      <<[hi |-> 258, lo |-> 772], Small(3)>> }

DictEntryPool == {<<w, r[1], r[2]>> : w \in {Tun, Shun}, r \in DictRanges}

\* what load_from_csv returns from the cache file
CachedResults == {<<>>, <<[k |-> Tun, v |-> <<<<97, 97>>>>]>>}

\* a seek or a read fails with an I/O error, or does not
IOOutcomes == {"ok", "OSError"}

\* words to score: a stem of up to MaxStem letters, a hyphen or none, a
\* listed suffix or none; the entry has no 'spell', an empty one or one
MaxStem == 16

Stem(n) == [i \in 1..n |-> 1378]

ScoreWords ==
    { Stem(n) \o h \o x : n \in 0..MaxStem, h \in {<<>>, <<Hyphen>>},
                          x \in Range(abstract_suffixes) \cup {<<>>} }

ScoreEntries ==
    {[am |-> w] : w \in ScoreWords}
    \cup {[am |-> w, spell |-> p] : w \in ScoreWords, p \in {"", "bar"}}

\* translation texts: up to MaxTokens pieces, and a few longer texts
MaxTokens == 4

Zhelanie == <<1078, 1077, 1083, 1072, 1085, 1080, 1077>>

TextTokens ==
    { <<97, 98>>, <<66>>, <<32>>, <<46>>, <<49, 46, 32>>, Zhelanie, <<1377>>, <<9674>> }

\* 'a b c d e', 'a b c d e f', '<b>ab</b> (x) cd', 'это и есть', 'ab; cd',
\* 'ЭТО ЕСТЬ'
ScenarioTexts ==
    { <<97, 32, 98, 32, 99, 32, 100, 32, 101>>,
      <<97, 32, 98, 32, 99, 32, 100, 32, 101, 32, 102>>,
      <<60, 98, 62, 97, 98, 60, 47, 98, 62, 32, 40, 120, 41, 32, 99, 100>>,
      Eto \o <<32, 1080, 32>> \o Yest,
      <<97, 98, 59, 32, 99, 100>>,
      <<1069, 1058, 1054, 32, 1045, 1057, 1058, 1068>> }

Texts == {Flatten(ts) : ts \in SeqsUpTo(TextTokens, MaxTokens)} \cup ScenarioTexts

\* dicts of at most n items: sequences of items with distinct keys
DictsOver(K, V, n) ==
    {d \in SeqsUpTo([k : K, v : V], n) :
        \A i, j \in DOMAIN d : i # j => d[i].k # d[j].k}

(***************************************************************************)
(* Each specification runs one part of the program; the variables of the   *)
(* other parts stay at these values.                                       *)
(***************************************************************************)
IdlePipe ==
    /\ pc = "idle"
    /\ armenian_russian = <<>>
    /\ armenian_english = <<>>
    /\ iter_order = <<>>
    /\ vocabulary = <<>>
    /\ max_per_level = DefaultMaxPerLevel
    /\ leveled = EmptyLevels

IdleMain ==
    /\ main_pc = "idle"
    /\ stardict_present = FALSE
    /\ pdf_present = FALSE
    /\ ru_len = 0
    /\ en_len = 0
    /\ vocab_len = 0
    /\ reached = {}
    /\ levels_assigned = FALSE
    /\ output_written = FALSE

IdleIdx ==
    /\ idx_bytes = <<>>
    /\ idx_pos = 0
    /\ entries = <<>>
    /\ idx_pc = "idle"

IdleDict ==
    /\ dict_file = [data |-> <<>>, gzip |-> FALSE, complete |-> TRUE]
    /\ cache_hit = FALSE
    /\ dict_entries = <<>>
    /\ dict_i = 0
    /\ extracted_count = 0
    /\ skipped_count = 0
    /\ dict_result = <<>>
    /\ cache_saved = FALSE
    /\ dict_pc = "idle"

IdleScore ==
    /\ score_entry = [am |-> <<>>]
    /\ score_out = [t |-> 0, r |-> 0]
    /\ score_pc = "idle"

\* None, distinct from every str
None == << -1 >>

IdlePdf ==
    /\ total_pages = 0
    /\ page_num = 0
    /\ text_dict = <<>>
    /\ armenian_spans = <<>>
    /\ pronunciation_spans = <<>>
    /\ english_spans = <<>>
    /\ arm_i = 0
    /\ pronunciation = None
    /\ english_text = None
    /\ pdf_words = <<>>
    /\ pdf_result = <<>>
    /\ pdf_cache_hit = FALSE
    /\ pdf_cache_saved = FALSE
    /\ pdf_pc = "idle"

IdleCsv ==
    /\ fresh_dict = <<>>
    /\ cache_csv = None
    /\ cached_dict = <<>>
    /\ csv_pc = "idle"

NoResult == [meanings |-> <<>>, usage_examples |-> <<>>]

IdleClean ==
    /\ text_in = <<>>
    /\ text_out = NoResult
    /\ reclean = [meaning |-> <<>>, result |-> NoResult]
    /\ clean_pc = "idle"

(***************************************************************************)
(* The levelling alone: assign_levels on a list and a cap.                 *)
(***************************************************************************)
InitLevel ==
    /\ IdleMain /\ IdleIdx /\ IdleDict /\ IdleClean /\ IdleScore /\ IdlePdf /\ IdleCsv
    /\ pc = "level"
    /\ armenian_russian = <<>>
    /\ armenian_english = <<>>
    /\ iter_order = <<>>
    /\ vocabulary \in SeqsUpTo(LevelPool, MaxVocab) \cup {ScenarioVocabulary}
    /\ max_per_level \in 0..MaxCap
    /\ leveled = EmptyLevels

AssignLevelsCall ==
    /\ pc = "level"
    /\ leveled' = assign_levels(vocabulary, max_per_level)
    /\ pc' = "leveled"
    /\ UNCHANGED <<armenian_russian, armenian_english, iter_order,
                   vocabulary, max_per_level>>
    /\ UNCHANGED <<mainVars, idxVars, dictVars, cleanVars, scoreVars, pdfVars, csvVars>>

NextLevel == AssignLevelsCall

SpecLevel == InitLevel /\ [][NextLevel]_vars

(***************************************************************************)
(* The merge followed by the levelling, as main runs them.                 *)
(***************************************************************************)
InitMerge ==
    /\ IdleMain /\ IdleIdx /\ IdleDict /\ IdleClean /\ IdleScore /\ IdlePdf /\ IdleCsv
    /\ pc = "merge"
    /\ armenian_russian \in DictsOver(RussianWords, RussianValues, MaxDict)
    /\ armenian_english \in DictsOver(EnglishWords, EnglishValues, MaxDict)
    /\ iter_order = <<>>
    /\ vocabulary = <<>>
    /\ max_per_level = DefaultMaxPerLevel
    /\ leveled = EmptyLevels

MergeCall ==
    /\ pc = "merge"
    /\ \E order \in IterationOrders(CommonWords(armenian_russian, armenian_english)) :
          /\ iter_order' = order
          /\ vocabulary' = merge_vocabularies(armenian_russian, armenian_english, order)
    /\ pc' = "level"
    /\ UNCHANGED <<armenian_russian, armenian_english, max_per_level, leveled>>
    /\ UNCHANGED <<mainVars, idxVars, dictVars, cleanVars, scoreVars, pdfVars, csvVars>>

NextMerge == MergeCall \/ AssignLevelsCall

SpecMerge == InitMerge /\ [][NextMerge]_vars

(***************************************************************************)
(* main.  Its control flow reads only the sizes of the two source          *)
(* dictionaries and of the merged vocabulary, so the dictionaries are kept *)
(* as their lengths: what a parser returns is an input, and the merge      *)
(* returns at most one entry per key the two sources share.                *)
(***************************************************************************)
MIN_WORDS_PER_SOURCE == 700

\* len(parse_stardict_dict(...)), len(parse_pdf_dictionary(...))
SourceYields ==
    {0, 1, MIN_WORDS_PER_SOURCE - 1, MIN_WORDS_PER_SOURCE, MIN_WORDS_PER_SOURCE + 1,
     2 * MIN_WORDS_PER_SOURCE}

\* mutant: the merge yields entries whatever the sources hold
MergeYieldsAny(r, e) == {0, 1}

\* len(vocabulary) after merge_vocabularies on sources of r and e entries
MergeYields(r, e) == {n \in {0, 1, Min(r, e)} : n <= Min(r, e)}

\* mutant: the validation of a source's yield is skipped
BelowMinimumNever(n) == FALSE

\* len(...) < MIN_WORDS_PER_SOURCE
BelowMinimum(n) == n < MIN_WORDS_PER_SOURCE

\* lines 847-868
MainStarDict ==
    /\ main_pc = "stardict"
    /\ reached' = reached \cup {"stardict"}
    /\ IF stardict_present
       THEN \E n \in SourceYields :
               /\ ru_len' = n
               /\ main_pc' = IF BelowMinimum(n) THEN "raised" ELSE "pdf"
       ELSE /\ ru_len' = 0
            /\ main_pc' = "pdf"
    /\ UNCHANGED <<stardict_present, pdf_present, en_len, vocab_len,
                   levels_assigned, output_written>>
    /\ UNCHANGED <<pipeVars, idxVars, dictVars, cleanVars, scoreVars, pdfVars, csvVars>>

\* lines 871-885
MainPdf ==
    /\ main_pc = "pdf"
    /\ reached' = reached \cup {"pdf"}
    /\ IF pdf_present
       THEN \E n \in SourceYields :
               /\ en_len' = n
               /\ main_pc' = IF BelowMinimum(n) THEN "raised" ELSE "check_sources"
       ELSE /\ en_len' = 0
            /\ main_pc' = "check_sources"
    /\ UNCHANGED <<stardict_present, pdf_present, ru_len, vocab_len,
                   levels_assigned, output_written>>
    /\ UNCHANGED <<pipeVars, idxVars, dictVars, cleanVars, scoreVars, pdfVars, csvVars>>

\* lines 436-439: the PDF is there but PyMuPDF cannot be imported
MainPdfImportError ==
    /\ main_pc = "pdf"
    /\ pdf_present
    /\ reached' = reached \cup {"pdf"}
    /\ main_pc' = "raised"
    /\ UNCHANGED <<stardict_present, pdf_present, ru_len, en_len, vocab_len,
                   levels_assigned, output_written>>
    /\ UNCHANGED <<pipeVars, idxVars, dictVars, cleanVars, scoreVars, pdfVars, csvVars>>

\* lines 887-888
MainCheckSources ==
    /\ main_pc = "check_sources"
    /\ reached' = reached \cup {"check_sources"}
    /\ main_pc' = IF ru_len = 0 /\ en_len = 0 THEN "raised" ELSE "merge"
    /\ UNCHANGED <<stardict_present, pdf_present, ru_len, en_len, vocab_len,
                   levels_assigned, output_written>>
    /\ UNCHANGED <<pipeVars, idxVars, dictVars, cleanVars, scoreVars, pdfVars, csvVars>>

\* lines 892-900
MainMerge ==
    /\ main_pc = "merge"
    /\ reached' = reached \cup {"merge"}
    /\ \E n \in MergeYields(ru_len, en_len) :
          /\ vocab_len' = n
          /\ main_pc' = IF n = 0 THEN "raised" ELSE "levels"
    /\ UNCHANGED <<stardict_present, pdf_present, ru_len, en_len,
                   levels_assigned, output_written>>
    /\ UNCHANGED <<pipeVars, idxVars, dictVars, cleanVars, scoreVars, pdfVars, csvVars>>

\* lines 904-906
MainLevels ==
    /\ main_pc = "levels"
    /\ reached' = reached \cup {"levels"}
    /\ levels_assigned' = TRUE
    /\ main_pc' = "save"
    /\ UNCHANGED <<stardict_present, pdf_present, ru_len, en_len, vocab_len,
                   output_written>>
    /\ UNCHANGED <<pipeVars, idxVars, dictVars, cleanVars, scoreVars, pdfVars, csvVars>>

\* lines 909-915
MainSave ==
    /\ main_pc = "save"
    /\ reached' = reached \cup {"save"}
    /\ output_written' = TRUE
    /\ main_pc' = "done"
    /\ UNCHANGED <<stardict_present, pdf_present, ru_len, en_len, vocab_len,
                   levels_assigned>>
    /\ UNCHANGED <<pipeVars, idxVars, dictVars, cleanVars, scoreVars, pdfVars, csvVars>>

InitMain ==
    /\ IdlePipe /\ IdleIdx /\ IdleDict /\ IdleClean /\ IdleScore /\ IdlePdf /\ IdleCsv
    /\ main_pc = "stardict"
    /\ stardict_present \in BOOLEAN
    /\ pdf_present \in BOOLEAN
    /\ ru_len = 0
    /\ en_len = 0
    /\ vocab_len = 0
    /\ reached = {}
    /\ levels_assigned = FALSE
    /\ output_written = FALSE

NextMain ==
    \/ MainStarDict
    \/ MainPdf
    \/ MainPdfImportError
    \/ MainCheckSources
    \/ MainMerge
    \/ MainLevels
    \/ MainSave

SpecMain == InitMain /\ [][NextMain]_vars

(***************************************************************************)
(* parse_stardict_idx: one action per iteration of the outer loop.         *)
(***************************************************************************)
InitIdx ==
    /\ IdlePipe /\ IdleMain /\ IdleDict /\ IdleClean /\ IdleScore /\ IdlePdf /\ IdleCsv
    /\ idx_bytes \in IdxFiles
    /\ idx_pos = 0
    /\ entries = <<>>
    /\ idx_pc = "read"

\* lines 316-350
IdxReadRecord ==
    /\ idx_pc = "read"
    /\ LET w == ReadWord(idx_bytes, idx_pos, <<>>)
           word == Utf8Decode(w.word_bytes)
           offset_bytes == FileRead(idx_bytes, w.pos, 4)
           size_bytes == FileRead(idx_bytes, w.pos + 4, 4)
       IN  IF w.eof
           THEN \* the file ended inside a word: return entries
                /\ idx_pos' = w.pos
                /\ idx_pc' = "done"
                /\ UNCHANGED entries
           ELSE IF ~word.ok
           THEN \* UnicodeDecodeError: continue, the next word starts here
                /\ idx_pos' = w.pos
                /\ UNCHANGED <<entries, idx_pc>>
           ELSE IF Len(offset_bytes) < 4
           THEN /\ idx_pos' = w.pos + Len(offset_bytes)
                /\ idx_pc' = "done"
                /\ UNCHANGED entries
           ELSE IF Len(size_bytes) < 4
           THEN /\ idx_pos' = w.pos + 4 + Len(size_bytes)
                /\ idx_pc' = "done"
                /\ UNCHANGED entries
           ELSE /\ entries' = Append(entries, <<word.text, UnpackBigEndian(offset_bytes),
                                                UnpackBigEndian(size_bytes)>>)
                /\ idx_pos' = w.pos + 8
                /\ UNCHANGED idx_pc
    /\ UNCHANGED idx_bytes
    /\ UNCHANGED <<pipeVars, mainVars, dictVars, cleanVars, scoreVars, pdfVars, csvVars>>

NextIdx == IdxReadRecord

SpecIdx == InitIdx /\ [][NextIdx]_vars

(***************************************************************************)
(* parse_stardict_dict: one action per iteration of the loop.              *)
(***************************************************************************)
InitDict ==
    /\ IdlePipe /\ IdleMain /\ IdleIdx /\ IdleClean /\ IdleScore /\ IdlePdf /\ IdleCsv
    /\ dict_file \in DictFiles
    /\ cache_hit \in BOOLEAN
    /\ dict_entries \in SeqsUpTo(DictEntryPool, MaxDictEntries)
    /\ dict_i = 0
    /\ extracted_count = 0
    /\ skipped_count = 0
    /\ dict_result = <<>>
    /\ cache_saved = FALSE
    /\ dict_pc = "start"

\* lines 363-365
DictLoadCache ==
    /\ dict_pc = "start"
    /\ cache_hit
    /\ dict_result' \in CachedResults
    /\ dict_pc' = "cached"
    /\ UNCHANGED <<dict_file, cache_hit, dict_entries, dict_i, extracted_count,
                   skipped_count, cache_saved>>
    /\ UNCHANGED <<pipeVars, mainVars, idxVars, cleanVars, scoreVars, pdfVars, csvVars>>

\* lines 367-381
DictOpen ==
    /\ dict_pc = "start"
    /\ ~cache_hit
    /\ dict_pc' = "loop"
    /\ UNCHANGED <<dict_file, cache_hit, dict_entries, dict_i, extracted_count,
                   skipped_count, dict_result, cache_saved>>
    /\ UNCHANGED <<pipeVars, mainVars, idxVars, cleanVars, scoreVars, pdfVars, csvVars>>

\* lines 382-414
DictProcessEntry ==
    /\ dict_pc = "loop"
    /\ dict_i < Len(dict_entries)
    /\ \E io \in IOOutcomes :
        LET word == dict_entries[dict_i + 1][1]
            offset == dict_entries[dict_i + 1][2]
            size == dict_entries[dict_i + 1][3]
            read == IF io = "ok" THEN SeekRead(dict_file, offset, size)
                    ELSE [raised |-> io, data |-> <<>>]
            outcome == EntryOutcome(read.data)
        IN  IF read.raised = "none"
            THEN /\ dict_i' = dict_i + 1
                 /\ IF outcome.extracted
                    THEN /\ dict_result' = SetItem(dict_result, word, outcome.clean_words)
                         /\ extracted_count' = extracted_count + 1
                         /\ UNCHANGED skipped_count
                    ELSE /\ skipped_count' = skipped_count + 1
                         /\ UNCHANGED <<dict_result, extracted_count>>
                 /\ UNCHANGED dict_pc
            ELSE IF CaughtInLoop(read.raised)
            THEN /\ dict_i' = dict_i + 1
                 /\ skipped_count' = skipped_count + 1
                 /\ UNCHANGED <<dict_result, extracted_count, dict_pc>>
            ELSE \* the exception leaves the loop and the function
                 /\ dict_pc' = "aborted"
                 /\ UNCHANGED <<dict_i, dict_result, extracted_count, skipped_count>>
    /\ UNCHANGED <<dict_file, cache_hit, dict_entries, cache_saved>>
    /\ UNCHANGED <<pipeVars, mainVars, idxVars, cleanVars, scoreVars, pdfVars, csvVars>>

\* lines 415-423
DictFinish ==
    /\ dict_pc = "loop"
    /\ dict_i = Len(dict_entries)
    /\ cache_saved' = (dict_result # <<>>)
    /\ dict_pc' = "done"
    /\ UNCHANGED <<dict_file, cache_hit, dict_entries, dict_i, extracted_count,
                   skipped_count, dict_result>>
    /\ UNCHANGED <<pipeVars, mainVars, idxVars, cleanVars, scoreVars, pdfVars, csvVars>>

NextDict == DictLoadCache \/ DictOpen \/ DictProcessEntry \/ DictFinish

SpecDict == InitDict /\ [][NextDict]_vars

(***************************************************************************)
(* clean_translation on a text, and again on one of the meanings it        *)
(* returned.                                                               *)
(***************************************************************************)
InitClean ==
    /\ IdlePipe /\ IdleMain /\ IdleIdx /\ IdleDict /\ IdleScore /\ IdlePdf /\ IdleCsv
    /\ text_in \in Texts
    /\ text_out = NoResult
    /\ reclean = [meaning |-> <<>>, result |-> NoResult]
    /\ clean_pc = "call"

CleanCall ==
    /\ clean_pc = "call"
    /\ text_out' = clean_translation(text_in)
    /\ clean_pc' = "returned"
    /\ UNCHANGED <<text_in, reclean>>
    /\ UNCHANGED <<pipeVars, mainVars, idxVars, dictVars, scoreVars, pdfVars, csvVars>>

CleanAgain ==
    /\ clean_pc = "returned"
    /\ \E i \in DOMAIN text_out.meanings :
          reclean' = [meaning |-> text_out.meanings[i],
                      result |-> clean_translation(text_out.meanings[i])]
    /\ clean_pc' = "again"
    /\ UNCHANGED <<text_in, text_out>>
    /\ UNCHANGED <<pipeVars, mainVars, idxVars, dictVars, scoreVars, pdfVars, csvVars>>

NextClean == CleanCall \/ CleanAgain

SpecClean == InitClean /\ [][NextClean]_vars

(***************************************************************************)
(* The score of one entry, as assign_levels computes it (lines 672-676).   *)
(***************************************************************************)
InitScore ==
    /\ IdlePipe /\ IdleMain /\ IdleIdx /\ IdleDict /\ IdleClean /\ IdlePdf /\ IdleCsv
    /\ score_entry \in ScoreEntries
    /\ score_out = [t |-> 0, r |-> 0]
    /\ score_pc = "call"

ScoreCall ==
    /\ score_pc = "call"
    /\ score_out' = EntryScore(score_entry)
    /\ score_pc' = "returned"
    /\ UNCHANGED score_entry
    /\ UNCHANGED <<pipeVars, mainVars, idxVars, dictVars, cleanVars, pdfVars, csvVars>>

NextScore == ScoreCall

SpecScore == InitScore /\ [][NextScore]_vars

(***************************************************************************)
(* parse_pdf_dictionary.  A text run (a span of page.get_text('dict')) is  *)
(* [text, y, x] with x = bbox[0] and y = bbox[1]; the coordinates are      *)
(* whole numbers of points.  The statistics counters and duplicates_found  *)
(* are only printed and are left out.                                      *)
(***************************************************************************)
Y_TOLERANCE == 8

Abs(n) == IF n < 0 THEN -n ELSE n

\* str.split(sep) for a one-character separator
RECURSIVE SplitFrom(_, _, _)
SplitFrom(s, i, sep) ==
    LET j == IndexOf(s, i, sep)
    IN  IF j = 0 THEN << SubSeq(s, i, Len(s)) >>
        ELSE << SubSeq(s, i, j - 1) >> \o SplitFrom(s, j + 1, sep)

Split(text, sep) == Only({SplitFrom(s, 1, sep) : s \in {text}})

\* str.split(): the runs of non-whitespace characters
RECURSIVE SplitWhitespaceFrom(_, _)
SplitWhitespaceFrom(s, i) ==
    LET start == SkipWhile(s, i, "space")
        spaces == {j \in start..Len(s) : IsSpace(s[j])}
        stop == IF spaces = {} THEN Len(s) + 1
                ELSE CHOOSE j \in spaces : \A k \in spaces : j <= k
    IN  IF start > Len(s) THEN <<>>
        ELSE << SubSeq(s, start, stop - 1) >> \o SplitWhitespaceFrom(s, stop)

SplitWhitespace(text) == Only({SplitWhitespaceFrom(s, 1) : s \in {text}})

\* text.replace('\n', ' ')
ReplaceNewlines(text) == [i \in DOMAIN text |-> IF text[i] = 10 THEN 32 ELSE text[i]]

\* text.replace('  ', ' '): the pairs of spaces, left to right, not overlapping
RECURSIVE ReplaceDoubleSpacesFrom(_, _)
ReplaceDoubleSpacesFrom(s, i) ==
    IF i > Len(s) THEN <<>>
    ELSE IF i < Len(s) /\ s[i] = 32 /\ s[i + 1] = 32
         THEN <<32>> \o ReplaceDoubleSpacesFrom(s, i + 2)
         ELSE << s[i] >> \o ReplaceDoubleSpacesFrom(s, i + 1)

ReplaceDoubleSpaces(text) == Only({ReplaceDoubleSpacesFrom(s, 1) : s \in {text}})

\* str.strip(chars)
StripChars(s, chars) ==
    LET keep == {i \in DOMAIN s : s[i] \notin chars}
    IN  IF keep = {} THEN <<>>
        ELSE SubSeq(s, CHOOSE i \in keep : \A k \in keep : i <= k,
                       CHOOSE i \in keep : \A k \in keep : k <= i)

\* '.,;:()[]{}' and '[]()'
WordPunctuation == {46, 44, 59, 58, 40, 41, 91, 93, 123, 125}
Brackets == {91, 93, 40, 41}

\* re.search(r'[԰-֏Ա-Ֆ]', text)
HasArmenian(text) == \E i \in DOMAIN text : IsArmenianBlock(text[i])

\* re.search(r'[a-zA-Z]', text)
HasAsciiLetter(text) ==
    \E i \in DOMAIN text : (text[i] >= 97 /\ text[i] <= 122) \/ (text[i] >= 65 /\ text[i] <= 90)

\* re.search(r'[ա-ֆ]', text)
HasLowerArmenian(text) == \E i \in DOMAIN text : text[i] >= 1377 /\ text[i] <= 1414

\* re.search(r'[-–—]', text)
HasDash(text) == \E i \in DOMAIN text : text[i] \in {45, 8211, 8212}

\* str.isdigit()
IsAllDigits(text) == text # <<>> /\ \A i \in DOMAIN text : IsDigit(text[i])

\* lines 29-35; a letter is a character that has a case
is_abbreviation(word) ==
    /\ word # <<>>
    /\ Len(word) <= 3
    /\ ~HasLowercase(word)
    /\ \E i \in DOMAIN word : LowerChar(word[i]) # word[i]
    /\ \A i \in DOMAIN word : LowerChar(word[i]) # word[i] \/ IsLowerChar(word[i])

\* ocr_fixes on one character: 8 a, 7 z, 9 q, 0 o, 1 l, 5 s
OcrFix(c) ==
    CASE c = 56 -> 97
      [] c = 55 -> 122
      [] c = 57 -> 113
      [] c = 48 -> 111
      [] c = 49 -> 108
      [] c = 53 -> 115
      [] OTHER -> c

\* lines 38-68
fix_ocr_pronunciation(pron) ==
    IF pron = <<>> THEN pron
    ELSE IF pron = <<56, 55, 57>> THEN <<97, 122, 113>>
    ELSE IF Len(pron) = 1 /\ OcrFix(pron[1]) # pron[1] THEN << OcrFix(pron[1]) >>
    ELSE IF IsAllDigits(pron) /\ Len(pron) <= 5 THEN [i \in DOMAIN pron |-> OcrFix(pron[i])]
    ELSE pron

\* lines 482-485: the words of a column-1 run, each at the run's position
RECURSIVE ArmenianWordsFrom(_, _, _)
ArmenianWordsFrom(span, words, i) ==
    IF i > Len(words) THEN <<>>
    ELSE (IF Strip(words[i]) # <<>> /\ HasArmenian(words[i])
          THEN << [text |-> Strip(words[i]), y |-> span.y, x |-> span.x] >>
          ELSE <<>>)
         \o ArmenianWordsFrom(span, words, i + 1)

\* lines 489-495: the pronunciations of a column-2 run
RECURSIVE PronunciationPartsFrom(_, _, _)
PronunciationPartsFrom(span, pron_parts, i) ==
    IF i > Len(pron_parts) THEN <<>>
    ELSE (IF Len(Strip(pron_parts[i])) >= 2
          THEN Only({ IF IsAllDigits(pron_fixed) /\ Len(pron_fixed) > 3 THEN <<>>
                      ELSE << [text |-> pron_fixed, y |-> span.y, x |-> span.x] >>
                      : pron_fixed \in {fix_ocr_pronunciation(Strip(pron_parts[i]))} })
          ELSE <<>>)
         \o PronunciationPartsFrom(span, pron_parts, i + 1)

\* lines 480-498: what a run whose stripped text is text adds to the list of
\* a column, 1 armenian_spans, 2 pronunciation_spans, 3 english_spans
SpanRuns(span, text, column) ==
    IF text = <<>> THEN <<>>
    ELSE IF span.x < 200 /\ HasArmenian(text)
    THEN (IF column = 1
          THEN Only({ArmenianWordsFrom(span, words, 1) : words \in {Split(text, 10)}})
          ELSE <<>>)
    ELSE IF 200 <= span.x /\ span.x < 340
    THEN (IF column = 2
          THEN Only({ PronunciationPartsFrom(span, pron_parts, 1)
                      : pron_parts \in {SplitWhitespace(ReplaceNewlines(text))} })
          ELSE <<>>)
    ELSE IF span.x >= 340 /\ HasAsciiLetter(text)
    THEN (IF column = 3 THEN << [text |-> text, y |-> span.y, x |-> span.x] >> ELSE <<>>)
    ELSE <<>>

\* lines 466-498: the list of a column after the runs of the page
RECURSIVE ColumnSpansFrom(_, _, _)
ColumnSpansFrom(page, column, i) ==
    IF i > Len(page) THEN <<>>
    ELSE Only({SpanRuns(page[i], text, column) : text \in {Strip(page[i].text)}})
         \o ColumnSpansFrom(page, column, i + 1)

ColumnSpans(page, column) == ColumnSpansFrom(page, column, 1)

\* the loops of lines 509-520 with <= for the second comparison: the last of
\* the closest runs
RECURSIVE ClosestLastFrom(_, _, _, _, _)
ClosestLastFrom(spans, i, y, best_dist, best) ==
    IF i > Len(spans) THEN best
    ELSE IF Abs(spans[i].y - y) < Y_TOLERANCE
            /\ (best = None \/ Abs(spans[i].y - y) <= best_dist)
         THEN ClosestLastFrom(spans, i + 1, y, Abs(spans[i].y - y), spans[i].text)
         ELSE ClosestLastFrom(spans, i + 1, y, best_dist, best)

\* lines 509-513 and 516-520: the text of the closest run within the
\* tolerance, None when there is none; best = None stands for the distance
\* float('inf')
RECURSIVE ClosestFrom(_, _, _, _, _)
ClosestFrom(spans, i, y, best_dist, best) ==
    IF i > Len(spans) THEN best
    ELSE IF Abs(spans[i].y - y) < Y_TOLERANCE
            /\ (best = None \/ Abs(spans[i].y - y) < best_dist)
         THEN ClosestFrom(spans, i + 1, y, Abs(spans[i].y - y), spans[i].text)
         ELSE ClosestFrom(spans, i + 1, y, best_dist, best)

Closest(spans, y) == ClosestFrom(spans, 1, y, 0, None)

\* lines 526-542: the key of the word, None when the word is skipped
CleanWord(armenian_word) ==
    IF ~HasArmenian(armenian_word) THEN None
    ELSE IF is_abbreviation(armenian_word) THEN None
    ELSE IF Len(armenian_word) <= 3 /\ HasDash(armenian_word) THEN None
    ELSE IF ~HasLowerArmenian(armenian_word) THEN None
    ELSE IF Len(armenian_word) < 1 THEN None
    ELSE armenian_word

\* lines 546-547
RECURSIVE StrippedNonEmpty(_, _)
StrippedNonEmpty(parts, i) ==
    IF i > Len(parts) THEN <<>>
    ELSE (IF Strip(parts[i]) # <<>> THEN << Strip(parts[i]) >> ELSE <<>>)
         \o StrippedNonEmpty(parts, i + 1)

english_words(text) ==
    Only({ StrippedNonEmpty(parts, 1)
           : parts \in {Split(ReplaceDoubleSpaces(ReplaceNewlines(text)), 44)} })

\* the appends without the membership test
AppendAll(list, items, i) == list \o SubSeq(items, i, Len(items))

\* lines 551-553 and 579-581: append the items the list does not hold
RECURSIVE AppendNew(_, _, _)
AppendNew(list, items, i) ==
    IF i > Len(items) THEN list
    ELSE AppendNew(IF \E j \in DOMAIN list : list[j] = items[i]
                   THEN list ELSE Append(list, items[i]),
                   items, i + 1)

\* armenian_english[key] of the defaultdict
Entry(dict, key) ==
    IF \E i \in DOMAIN dict : dict[i].k = key
    THEN (CHOOSE e \in Range(dict) : e.k = key).v
    ELSE [english |-> <<>>, pronunciation |-> None]

\* lines 556-562: the pronunciation of the entry after the word
StoredPronunciation(old, found) ==
    IF found = None THEN old
    ELSE Only({ IF pronunciation_clean # <<>> /\ 2 <= Len(pronunciation_clean)
                   /\ Len(pronunciation_clean) <= 50 /\ old = None
                THEN pronunciation_clean ELSE old
                : pronunciation_clean \in {StripChars(found, Brackets)} })

\* lines 524-562: armenian_english after a word with its matches
StoreWord(dict, arm_word, found_english, found_pronunciation) ==
    IF arm_word = <<>> \/ found_english = None THEN dict
    ELSE IF Strip(found_english) = <<>> THEN dict
    ELSE Only({ IF armenian_word = None THEN dict
                ELSE Only({ IF words = <<>> THEN dict
                            ELSE Only({ SetItem(dict, armenian_word,
                                          [english |-> AppendNew(old.english, words, 1),
                                           pronunciation |->
                                             StoredPronunciation(old.pronunciation,
                                                                 found_pronunciation)])
                                        : old \in {Entry(dict, armenian_word)} })
                            : words \in {english_words(found_english)} })
                : armenian_word \in {CleanWord(StripChars(arm_word, WordPunctuation))} })

\* lines 576-610: merged_result after the items of armenian_english from i
\* on; an item of merged_result is word_lower -> [english, pronunciation,
\* original_word]
RECURSIVE MergeDuplicatesFrom(_, _, _)
MergeDuplicatesFrom(dict, i, merged_result) ==
    IF i > Len(dict) THEN merged_result
    ELSE Only({
           IF \E j \in DOMAIN merged_result : merged_result[j].k = word_lower
           THEN Only({ MergeDuplicatesFrom(dict, i + 1,
                         SetItem(merged_result, word_lower,
                           [english |-> AppendNew(existing_data.english, dict[i].v.english, 1),
                            pronunciation |->
                              IF existing_data.pronunciation = None
                                 /\ dict[i].v.pronunciation # None
                              THEN dict[i].v.pronunciation
                              ELSE existing_data.pronunciation,
                            original_word |->
                              IF HasLowercase(dict[i].k) THEN dict[i].k
                              ELSE existing_data.original_word]))
                       : existing_data \in {(CHOOSE e \in Range(merged_result)
                                                : e.k = word_lower).v} })
           ELSE MergeDuplicatesFrom(dict, i + 1,
                  Append(merged_result,
                         [k |-> word_lower,
                          v |-> [english |-> dict[i].v.english,
                                 pronunciation |-> dict[i].v.pronunciation,
                                 original_word |-> dict[i].k]]))
           : word_lower \in {Lower(dict[i].k)} })

\* lines 604-610: result, keyed by the original words
RECURSIVE ResultFrom(_, _, _)
ResultFrom(merged_result, i, result) ==
    IF i > Len(merged_result) THEN result
    ELSE ResultFrom(merged_result, i + 1,
                    SetItem(result, merged_result[i].v.original_word,
                            [english |-> merged_result[i].v.english,
                             pronunciation |-> merged_result[i].v.pronunciation]))

\* lines 572-610
MergeDuplicates(dict) ==
    Only({ResultFrom(merged_result, 1, <<>>)
          : merged_result \in {MergeDuplicatesFrom(dict, 1, <<>>)}})

(***************************************************************************)
(* Pages of the PDF dictionary: runs of the three columns at a few heights *)
(* around a row, so that a run is on the row, off it by less than the      *)
(* tolerance, off it by exactly the tolerance or further away.             *)
(***************************************************************************)
MaxPages == 2
MaxSpans == 2

TunUpper == <<1359, 1352, 1362, 1350>>
House == <<104, 111, 117, 115, 101>>
Home == <<104, 111, 109, 101>>
HomeHouse == Home \o <<44, 32>> \o House
PronTun == <<116, 117, 110>>

SpanPool ==
    { [text |-> Tun, y |-> 4, x |-> 150], [text |-> TunTitle, y |-> 4, x |-> 150],
      [text |-> House, y |-> 0, x |-> 340], [text |-> HomeHouse, y |-> 8, x |-> 340],
      [text |-> PronTun, y |-> 8, x |-> 200], [text |-> PronTun, y |-> 12, x |-> 200] }

ScenarioPages ==
    { \* two glosses at the same distance from the word, a pronunciation further
      << [text |-> House, y |-> 8, x |-> 400], [text |-> Home, y |-> 0, x |-> 400],
         [text |-> Tun, y |-> 4, x |-> 50], [text |-> PronTun, y |-> 12, x |-> 250] >>,
      \* two pronunciations at the same distance, the gloss on the row
      << [text |-> <<116, 111, 110>>, y |-> 0, x |-> 339], [text |-> PronTun, y |-> 8, x |-> 200],
         [text |-> TunTitle, y |-> 4, x |-> 199], [text |-> HomeHouse, y |-> 4, x |-> 340] >>,
      \* two words in one run, a run of two pronunciations, a bracketed one
      << [text |-> Tun \o <<10>> \o TunTitle \o <<46>>, y |-> 4, x |-> 150],
         [text |-> <<91, 116, 93, 32>> \o PronTun, y |-> 4, x |-> 200],
         [text |-> House \o <<44, 10>> \o Home \o <<44, 32, 32>> \o House, y |-> 4, x |-> 340] >>,
      \* a word without lowercase letters, an abbreviation, digits for letters
      << [text |-> TunUpper, y |-> 4, x |-> 150], [text |-> <<1359, 1350>>, y |-> 12, x |-> 150],
         [text |-> <<56, 55, 57>>, y |-> 4, x |-> 200], [text |-> House, y |-> 4, x |-> 340],
         [text |-> Tun, y |-> 5, x |-> 150] >>,
      \* runs that hold no text of their column
      << [text |-> House, y |-> 4, x |-> 150], [text |-> Tun, y |-> 4, x |-> 340],
         [text |-> <<32>>, y |-> 4, x |-> 200], [text |-> Tun, y |-> 4, x |-> 150],
         [text |-> <<49, 50, 51, 52>>, y |-> 4, x |-> 200] >> }

Pages == SeqsUpTo(SpanPool, MaxSpans) \cup ScenarioPages

\* what load_english_dict_from_csv returns for the cache file
CachedPdfResults ==
    { <<>>, << [k |-> Tun, v |-> [english |-> << House >>, pronunciation |-> None]] >> }

(***************************************************************************)
(* parse_pdf_dictionary: an action per page read and per column-1 word     *)
(* matched, and one for the merge of the duplicates.                       *)
(***************************************************************************)
InitPdf ==
    /\ IdlePipe /\ IdleMain /\ IdleIdx /\ IdleDict /\ IdleClean /\ IdleScore /\ IdleCsv
    /\ total_pages \in 0..MaxPages
    /\ pdf_cache_hit \in BOOLEAN
    /\ page_num = 0
    /\ text_dict = <<>>
    /\ armenian_spans = <<>>
    /\ pronunciation_spans = <<>>
    /\ english_spans = <<>>
    /\ arm_i = 0
    /\ pronunciation = None
    /\ english_text = None
    /\ pdf_words = <<>>
    /\ pdf_result = <<>>
    /\ pdf_cache_saved = FALSE
    /\ pdf_pc = "start"

\* lines 432-434
PdfLoadCache ==
    /\ pdf_pc = "start"
    /\ pdf_cache_hit
    /\ pdf_result' \in CachedPdfResults
    /\ pdf_pc' = "cached"
    /\ UNCHANGED <<total_pages, page_num, text_dict, armenian_spans,
                   pronunciation_spans, english_spans, arm_i, pronunciation,
                   english_text, pdf_words, pdf_cache_hit, pdf_cache_saved>>
    /\ UNCHANGED <<pipeVars, mainVars, idxVars, dictVars, cleanVars, scoreVars, csvVars>>

\* lines 441-453
PdfOpen ==
    /\ pdf_pc = "start"
    /\ ~pdf_cache_hit
    /\ pdf_pc' = "page"
    /\ UNCHANGED <<total_pages, page_num, text_dict, armenian_spans,
                   pronunciation_spans, english_spans, arm_i, pronunciation,
                   english_text, pdf_words, pdf_result, pdf_cache_hit, pdf_cache_saved>>
    /\ UNCHANGED <<pipeVars, mainVars, idxVars, dictVars, cleanVars, scoreVars, csvVars>>

\* lines 456-498: the runs of the next page, by column
PdfExtractPage ==
    /\ pdf_pc = "page"
    /\ page_num < total_pages
    /\ \E page \in Pages :
          /\ text_dict' = page
          /\ armenian_spans' = ColumnSpans(page, 1)
          /\ pronunciation_spans' = ColumnSpans(page, 2)
          /\ english_spans' = ColumnSpans(page, 3)
    /\ arm_i' = 0
    /\ pdf_pc' = "match"
    /\ UNCHANGED <<total_pages, page_num, pronunciation, english_text, pdf_words,
                   pdf_result, pdf_cache_hit, pdf_cache_saved>>
    /\ UNCHANGED <<pipeVars, mainVars, idxVars, dictVars, cleanVars, scoreVars, csvVars>>

\* lines 501-565: one iteration of the loop over the column-1 words
PdfMatchWord ==
    /\ pdf_pc = "match"
    /\ arm_i < Len(armenian_spans)
    /\ pronunciation' = Closest(pronunciation_spans, armenian_spans[arm_i + 1].y)
    /\ english_text' = Closest(english_spans, armenian_spans[arm_i + 1].y)
    /\ pdf_words' = StoreWord(pdf_words, armenian_spans[arm_i + 1].text,
                              english_text', pronunciation')
    /\ arm_i' = arm_i + 1
    /\ UNCHANGED <<total_pages, page_num, text_dict, armenian_spans,
                   pronunciation_spans, english_spans, pdf_result, pdf_cache_hit,
                   pdf_cache_saved, pdf_pc>>
    /\ UNCHANGED <<pipeVars, mainVars, idxVars, dictVars, cleanVars, scoreVars, csvVars>>

\* line 567: the page is finished.  The lists of the page and the matches of
\* its last word are not read again: lines 462-464 and 504-505 set them anew
PdfEndPage ==
    /\ pdf_pc = "match"
    /\ arm_i = Len(armenian_spans)
    /\ page_num' = page_num + 1
    /\ text_dict' = <<>>
    /\ armenian_spans' = <<>>
    /\ pronunciation_spans' = <<>>
    /\ english_spans' = <<>>
    /\ arm_i' = 0
    /\ pronunciation' = None
    /\ english_text' = None
    /\ pdf_pc' = "page"
    /\ UNCHANGED <<total_pages, pdf_words, pdf_result, pdf_cache_hit, pdf_cache_saved>>
    /\ UNCHANGED <<pipeVars, mainVars, idxVars, dictVars, cleanVars, scoreVars, csvVars>>

\* lines 572-632: merge the duplicates, save the cache, return
PdfFinish ==
    /\ pdf_pc = "page"
    /\ page_num = total_pages
    /\ pdf_result' = MergeDuplicates(pdf_words)
    /\ pdf_cache_saved' = (pdf_result' # <<>>)
    /\ pdf_pc' = "done"
    /\ UNCHANGED <<total_pages, page_num, text_dict, armenian_spans,
                   pronunciation_spans, english_spans, arm_i, pronunciation,
                   english_text, pdf_words, pdf_cache_hit>>
    /\ UNCHANGED <<pipeVars, mainVars, idxVars, dictVars, cleanVars, scoreVars, csvVars>>

NextPdf ==
    \/ PdfLoadCache
    \/ PdfOpen
    \/ PdfExtractPage
    \/ PdfMatchWord
    \/ PdfEndPage
    \/ PdfFinish

SpecPdf == InitPdf /\ [][NextPdf]_vars

(***************************************************************************)
(* The translation cache.  save_to_csv writes the file with csv.writer     *)
(* (dialect excel, newline=''); load_from_csv reads it with csv.DictReader *)
(* from a file opened in text mode without newline='', which turns every   *)
(* '\r\n' and '\r' of the file into '\n'.                                  *)
(***************************************************************************)
\* sep.join(list)
RECURSIVE JoinFrom(_, _, _)
JoinFrom(list, sep, i) ==
    IF i > Len(list) THEN <<>>
    ELSE list[i] \o (IF i < Len(list) THEN sep ELSE <<>>) \o JoinFrom(list, sep, i + 1)

Join(list, sep) == JoinFrom(list, sep, 1)

\* a field as csv.writer writes it: in quotes, the quotes doubled, when it
\* holds a comma, a quote, '\r' or '\n'
CsvField(field) ==
    IF \E i \in DOMAIN field : field[i] \in {44, 34, 13, 10}
    THEN <<34>> \o Flatten([i \in DOMAIN field |->
                               IF field[i] = 34 THEN <<34, 34>> ELSE << field[i] >>])
         \o <<34>>
    ELSE field

\* writer.writerow(row)
CsvRow(row) == Join([i \in DOMAIN row |-> CsvField(row[i])], <<44>>) \o <<13, 10>>

ColumnArmenian == <<97, 114, 109, 101, 110, 105, 97, 110>>
ColumnTranslations == <<116, 114, 97, 110, 115, 108, 97, 116, 105, 111, 110, 115>>

\* lines 240-248: the text of the file
save_to_csv(data) ==
    CsvRow(<<ColumnArmenian, ColumnTranslations>>)
    \o Flatten([i \in DOMAIN data |-> CsvRow(<<data[i].k, Join(data[i].v, <<59>>)>>)])

\* open(filepath, 'r'): universal newlines; the '\r' before a '\n' goes, any
\* other becomes '\n'
UniversalNewlines(text) ==
    Only({ [i \in DOMAIN kept |-> IF kept[i] = 13 THEN 10 ELSE kept[i]]
           : kept \in {SubSeqAt(text, {i \in DOMAIN text :
                                         ~(text[i] = 13 /\ i < Len(text)
                                           /\ text[i + 1] = 10)})} })

\* the lines of a text file, each with its '\n'
Lines(text) ==
    Only({ [i \in 1..(IF pieces[Len(pieces)] = <<>> THEN Len(pieces) - 1 ELSE Len(pieces))
              |-> IF i < Len(pieces) THEN Append(pieces[i], 10) ELSE pieces[i]]
           : pieces \in {Split(text, 10)} })

\* csv.reader, one character: mode is the state of the parser, field and row
\* what it has read of the field and of the record, rows the records read
CsvRecordEnd(st) ==
    [mode |-> "start", field |-> <<>>, row |-> <<>>,
     rows |-> Append(st.rows, Append(st.row, st.field))]

CsvFieldEnd(st) ==
    [mode |-> "field_start", field |-> <<>>, row |-> Append(st.row, st.field),
     rows |-> st.rows]

CsvStep(st, c) ==
    CASE st.mode = "start" /\ c \in {10, 13} -> st
      [] st.mode \in {"start", "field_start"} /\ c = 34 -> [st EXCEPT !.mode = "quoted"]
      [] st.mode = "quoted" /\ c = 34 -> [st EXCEPT !.mode = "quote"]
      [] st.mode = "quoted" /\ c # 34 -> [st EXCEPT !.field = Append(@, c)]
      [] st.mode = "quote" /\ c = 34 ->
            [st EXCEPT !.mode = "quoted", !.field = Append(@, c)]
      [] st.mode # "quoted" /\ c = 44 -> CsvFieldEnd(st)
      [] st.mode \in {"field_start", "field", "quote"} /\ c \in {10, 13} -> CsvRecordEnd(st)
      [] OTHER -> [st EXCEPT !.mode = "field", !.field = Append(@, c)]

\* the parser after the characters of a line from i on
RECURSIVE CsvReadLine(_, _, _)
CsvReadLine(line, i, st) ==
    IF i > Len(line) THEN st
    ELSE Only({CsvReadLine(line, i + 1, next) : next \in {CsvStep(st, line[i])}})

\* the records read from the lines from i on
RECURSIVE CsvReadFrom(_, _, _)
CsvReadFrom(lines, i, st) ==
    IF i > Len(lines)
    THEN (IF st.mode = "start" THEN st.rows ELSE CsvRecordEnd(st).rows)
    ELSE Only({CsvReadFrom(lines, i + 1, next) : next \in {CsvReadLine(lines[i], 1, st)}})

\* the records of the text
CsvRead(text) ==
    Only({ CsvReadFrom(lines, 1, [mode |-> "start", field |-> <<>>, row |-> <<>>,
                                  rows |-> <<>>])
           : lines \in {Lines(text)} })

\* row[name] of a csv.DictReader row: None for a column the record is too
\* short for
CsvGet(fieldnames, row, name) ==
    LET at == {i \in DOMAIN fieldnames : fieldnames[i] = name /\ i <= Len(row)}
    IN  IF at = {} THEN None ELSE row[CHOOSE i \in at : \A j \in at : j <= i]

\* lines 258-262: the result after the records from i on
RECURSIVE LoadRowsFrom(_, _, _, _)
LoadRowsFrom(fieldnames, rows, i, result) ==
    IF i > Len(rows) THEN [raised |-> "none", result |-> result]
    ELSE IF CsvGet(fieldnames, rows[i], ColumnTranslations) = None
            \/ CsvGet(fieldnames, rows[i], ColumnArmenian) = None
    THEN [raised |-> "error", result |-> result]
    ELSE Only({ LoadRowsFrom(fieldnames, rows, i + 1,
                    IF translations # <<>>
                    THEN SetItem(result, CsvGet(fieldnames, rows[i], ColumnArmenian),
                                 translations)
                    ELSE result)
                : translations \in
                    {StrippedNonEmpty(Split(CsvGet(fieldnames, rows[i], ColumnTranslations),
                                            59), 1)} })

\* lines 251-263, for the text of a file that exists
load_from_csv(text) ==
    Only({ IF rows = <<>> THEN [raised |-> "none", result |-> <<>>]
           ELSE LoadRowsFrom(Head(rows), Tail(rows), 1, <<>>)
           : rows \in {CsvRead(UniversalNewlines(text))} })

(***************************************************************************)
(* A run of parse_stardict_dict that parses the data file and saves the    *)
(* cache, then a run that trusts the cache.  The first run is kept as the  *)
(* words and the decoded, stripped texts of its entries.                   *)
(***************************************************************************)
MaxCached == 2

\* a word with a quote and a comma in it
QuotedWord == <<1407, 34, 44, 1398>>

CacheWords == {Tun, Shun, QuotedWord}

\* 'ab', 'cd, ab', 'ab; cd', 'a;b', '1. ab 2. cd', 'ab' CR 'cd', 'ab' LF 'cd', '1.'
CacheTexts ==
    { <<97, 98>>, <<99, 100, 44, 32, 97, 98>>, <<97, 98, 59, 32, 99, 100>>,
      <<97, 59, 98>>, <<49, 46, 32, 97, 98, 32, 50, 46, 32, 99, 100>>,
      <<97, 98, 13, 99, 100>>, <<97, 98, 10, 99, 100>>, <<49, 46>> }

InitCsv ==
    /\ IdlePipe /\ IdleMain /\ IdleIdx /\ IdleDict /\ IdleClean /\ IdleScore /\ IdlePdf
    /\ fresh_dict = <<>>
    /\ cache_csv = None
    /\ cached_dict = <<>>
    /\ csv_pc = "parse"

\* lines 398-406: an entry of the data file; it is stored when
\* clean_translation returns a meaning
CsvParseEntry ==
    /\ csv_pc = "parse"
    /\ \E word \in CacheWords, translation_raw \in CacheTexts :
          /\ word \in Keys(fresh_dict) \/ Len(fresh_dict) < MaxCached
          /\ \E clean_words \in {clean_translation(translation_raw).meanings} :
                fresh_dict' = IF clean_words # <<>>
                              THEN SetItem(fresh_dict, word, clean_words)
                              ELSE fresh_dict
    /\ UNCHANGED <<cache_csv, cached_dict, csv_pc>>
    /\ UNCHANGED <<pipeVars, mainVars, idxVars, dictVars, cleanVars, scoreVars, pdfVars>>

\* lines 418-423: the cache is written when the dict is not empty
CsvSave ==
    /\ csv_pc = "parse"
    /\ cache_csv' = IF fresh_dict # <<>> THEN save_to_csv(fresh_dict) ELSE None
    /\ csv_pc' = "saved"
    /\ UNCHANGED <<fresh_dict, cached_dict>>
    /\ UNCHANGED <<pipeVars, mainVars, idxVars, dictVars, cleanVars, scoreVars, pdfVars>>

\* lines 362-365 of a later run with use_cache: the cache is returned
CsvLoad ==
    /\ csv_pc = "saved"
    /\ cache_csv # None
    /\ \E loaded \in {load_from_csv(cache_csv)} :
          /\ cached_dict' = loaded.result
          /\ csv_pc' = IF loaded.raised = "none" THEN "loaded" ELSE "raised"
    /\ UNCHANGED <<fresh_dict, cache_csv>>
    /\ UNCHANGED <<pipeVars, mainVars, idxVars, dictVars, cleanVars, scoreVars, pdfVars>>

\* lines 362-367 of a later run: there is no cache file, the data file is parsed
CsvReparse ==
    /\ csv_pc = "saved"
    /\ cache_csv = None
    /\ csv_pc' = "reparse"
    /\ UNCHANGED <<fresh_dict, cache_csv, cached_dict>>
    /\ UNCHANGED <<pipeVars, mainVars, idxVars, dictVars, cleanVars, scoreVars, pdfVars>>

NextCsv == CsvParseEntry \/ CsvSave \/ CsvLoad \/ CsvReparse

SpecCsv == InitCsv /\ [][NextCsv]_vars

(***************************************************************************)
(* Properties of assign_levels (SpecLevel).                                *)
(***************************************************************************)
Tiers == <<leveled.A1, leveled.A2, leveled.B1, leveled.B2>>

TierSizes == [t \in 1..4 |-> Len(Tiers[t])]

\* C1: the four tiers partition the input list: every entry is in the tiers
\* exactly as often as in the input, nothing is lost, repeated or invented,
\* and the tier sizes add up to the length of the input.
C1_TiersPartitionInput ==
    pc = "leveled" =>
        /\ \A e \in Range(vocabulary) \cup UNION {Range(Tiers[t]) : t \in 1..4} :
              CountIn(Tiers[1], e) + CountIn(Tiers[2], e)
              + CountIn(Tiers[3], e) + CountIn(Tiers[4], e) = CountIn(vocabulary, e)
        /\ TierSizes[1] + TierSizes[2] + TierSizes[3] + TierSizes[4] = Len(vocabulary)

C1_Witness ==
    /\ pc = "leveled"
    /\ Len(vocabulary) >= 5
    /\ Range(vocabulary) = LevelPool
    /\ \A t \in 1..4 : TierSizes[t] >= 1

\* C2: after assign_levels the sizes of any two tiers differ by at most 3.
C2_TierSizesBalanced ==
    pc = "leveled" => \A a, b \in 1..4 : TierSizes[a] - TierSizes[b] <= 3

C2_Witness ==
    /\ pc = "leveled"
    /\ max_per_level >= 1
    /\ Len(vocabulary) > 4 * max_per_level
    /\ Len(vocabulary) % 4 # 0
    /\ TierSizes[1] # TierSizes[4]

\* the entries the claim puts into tier t (0..3) of a sorted list s with p per tier:
\* positions t*p .. t*p+p-1, then every position i >= 4p with i mod 4 = t
ExpectedTier(s, p, t) ==
    LET left == Len(s) - 4 * p - t
        cnt == IF left <= 0 THEN 0 ELSE (left + 3) \div 4
    IN  SubSeq(s, t * p + 1, t * p + p)
        \o [k \in 1..cnt |-> s[4 * p + t + 4 * (k - 1) + 1]]

\* C3: with p = min(N div 4, cap), the sorted positions 0..4p-1 fill A1, A2, B1,
\* B2 consecutively with p entries each and every later position i goes to tier
\* i mod 4; ten entries with cap 2 end as sizes 3, 3, 2, 2.
C3_FillThenRoundRobin ==
    pc = "leveled" =>
        LET s == SortByComplexity(vocabulary)
            p == Min(Len(s) \div 4, max_per_level)
        IN  /\ \A t \in 1..4 : Tiers[t] = ExpectedTier(s, p, t - 1)
            /\ (Len(vocabulary) = 10 /\ max_per_level = 2 => TierSizes = <<3, 3, 2, 2>>)

C3_Witness ==
    /\ pc = "leveled"
    /\ vocabulary = ScenarioVocabulary
    /\ max_per_level = 2
    /\ TierSizes = <<3, 3, 2, 2>>
    /\ leveled.A1 = <<EntryTun, EntryShun, EntryAzgayin>>

(***************************************************************************)
(* Properties of merge_vocabularies (SpecMerge).                           *)
(***************************************************************************)
Merged == pc \in {"level", "leveled"}

LowerKeys(dict) == {normalize_armenian_word(k) : k \in Keys(dict)}

\* C4: every merged entry has a source word whose lowercase form is a lowercased
\* key of both sources and a non-empty gloss list; a common key all of whose
\* gloss-source spellings have no translations produces no entry.
C4_EntriesFromBothSources ==
    Merged =>
        /\ \A i \in DOMAIN vocabulary :
              /\ normalize_armenian_word(vocabulary[i].am) \in LowerKeys(armenian_russian)
              /\ normalize_armenian_word(vocabulary[i].am) \in LowerKeys(armenian_english)
              /\ vocabulary[i].en # <<>>
        /\ \A n \in LowerKeys(armenian_russian) \cap LowerKeys(armenian_english) :
              (\A j \in DOMAIN armenian_english :
                  normalize_armenian_word(armenian_english[j].k) = n
                  => armenian_english[j].v.english = <<>>)
              => \A i \in DOMAIN vocabulary :
                    normalize_armenian_word(vocabulary[i].am) # n

C4_Witness ==
    /\ Merged
    /\ Len(vocabulary) = 1
    /\ Cardinality(LowerKeys(armenian_russian) \cap LowerKeys(armenian_english)) = 2
    /\ \E j \in DOMAIN armenian_english : armenian_english[j].v.english = <<>>

\* the spellings of the two sources behind a merged entry
RussianSpelling(entry) ==
    NormalizedItem(armenian_russian, normalize_armenian_word(entry.am)).k

EnglishSpelling(entry) ==
    NormalizedItem(armenian_english, normalize_armenian_word(entry.am)).k

\* C5 as stated: the spelling comes from the one source that has lowercase
\* letters, and from the gloss (English) source when both have them and when
\* neither has.
C5_GlossSpellingWhenBothOrNeither ==
    Merged =>
        \A i \in DOMAIN vocabulary :
            LET r == RussianSpelling(vocabulary[i])
                e == EnglishSpelling(vocabulary[i])
            IN  vocabulary[i].am =
                    IF HasLowercase(e) /\ ~HasLowercase(r) THEN e
                    ELSE IF HasLowercase(r) /\ ~HasLowercase(e) THEN r
                    ELSE e

\* C5 amended: the gloss source's spelling is used when it has lowercase letters,
\* the translation source's spelling otherwise (also when neither has any);
\* {Տուն} merged with {տուն} gives the one entry տուն.
C5_GlossSpellingIffLowercase ==
    Merged =>
        /\ \A i \in DOMAIN vocabulary :
              LET r == RussianSpelling(vocabulary[i])
                  e == EnglishSpelling(vocabulary[i])
              IN  vocabulary[i].am = IF HasLowercase(e) THEN e ELSE r
        /\ (/\ Keys(armenian_russian) = {TunTitle}
            /\ Keys(armenian_english) = {Tun}
            /\ armenian_english[1].v.english # <<>>)
           => (Len(vocabulary) = 1 /\ vocabulary[1].am = Tun)

C5_Witness ==
    /\ Merged
    /\ \E i \in DOMAIN vocabulary :
          /\ RussianSpelling(vocabulary[i]) = KelvinK
          /\ EnglishSpelling(vocabulary[i]) = LatinK
          /\ vocabulary[i].am = KelvinK
    /\ \E i \in DOMAIN vocabulary :
          /\ RussianSpelling(vocabulary[i]) = TunTitle
          /\ EnglishSpelling(vocabulary[i]) = Tun
          /\ vocabulary[i].am = Tun

\* C6: merging and levelling the same two dictionaries gives the same four
\* tiers, whatever the order in which the set of common keys is iterated.
C6_SameOutputForEveryIterationOrder ==
    pc = "leveled" =>
        \A o \in IterationOrders(CommonWords(armenian_russian, armenian_english)) :
            assign_levels(merge_vocabularies(armenian_russian, armenian_english, o),
                          max_per_level) = leveled

(***************************************************************************)
(* Properties of main (SpecMain).                                          *)
(***************************************************************************)
\* a validation of main has failed in this run
ValidationFailed ==
    \/ stardict_present /\ "stardict" \in reached /\ ru_len < MIN_WORDS_PER_SOURCE
    \/ pdf_present /\ "pdf" \in reached /\ en_len < MIN_WORDS_PER_SOURCE
    \/ "check_sources" \in reached /\ ru_len = 0 /\ en_len = 0
    \/ "merge" \in reached /\ vocab_len = 0

\* C7: when a present source yields fewer than 700 entries, or both sources
\* yield none, or the merge yields none, the run has raised at that step:
\* levelling is not reached and vocabulary.json is not written.
C7_ValidationFailureAborts ==
    ValidationFailed =>
        /\ main_pc = "raised"
        /\ ~levels_assigned
        /\ ~output_written
        /\ reached \cap {"levels", "save"} = {}

C7_Witness ==
    /\ main_pc = "raised"
    /\ "merge" \in reached
    /\ ru_len >= MIN_WORDS_PER_SOURCE
    /\ en_len >= MIN_WORDS_PER_SOURCE
    /\ vocab_len = 0
    /\ ~output_written

\* the files of exactly one of the two sources are missing
OneSourceMissing == stardict_present # pdf_present

(***************************************************************************)
(* C20: a run of main in which the files of exactly one source are missing *)
(* takes that source as empty and goes on: before the merge it can stop    *)
(* only at the validation of the source that is there; it never reaches    *)
(* the output step.  vocabulary.json is written only in runs where both    *)
(* sources were present, each yielded at least 700 entries and the merge   *)
(* produced at least one entry.                                            *)
(***************************************************************************)
C20_MissingSourceNeverWrites ==
    /\ output_written =>
          /\ stardict_present /\ pdf_present
          /\ ru_len >= 700 /\ en_len >= 700
          /\ vocab_len >= 1
    /\ OneSourceMissing =>
          /\ ~output_written
          /\ reached \cap {"levels", "save"} = {}
          /\ main_pc \notin {"levels", "save", "done"}
          /\ (~stardict_present /\ "stardict" \in reached) => ru_len = 0
          /\ (~pdf_present /\ "pdf" \in reached) => en_len = 0
          /\ (main_pc = "raised" /\ "merge" \notin reached) =>
                \/ stardict_present /\ ru_len < 700
                \/ pdf_present /\ en_len < 700
          /\ "merge" \in reached => main_pc = "raised" /\ vocab_len = 0

\* the StarDict files are missing, the PDF yielded enough entries, the merge
\* was run and the run has raised after it
C20_Witness ==
    /\ ~stardict_present
    /\ pdf_present
    /\ ru_len = 0
    /\ en_len >= 700
    /\ "merge" \in reached
    /\ main_pc = "raised"
    /\ ~output_written

(***************************************************************************)
(* Properties of parse_stardict_idx (SpecIdx).                             *)
(***************************************************************************)
\* index of the first NUL at or after from, 0 when there is none
FirstNul(bytes, from) ==
    LET nuls == {i \in from..Len(bytes) : bytes[i] = 0}
    IN  IF nuls = {} THEN 0 ELSE CHOOSE i \in nuls : \A j \in nuls : i <= j

\* the complete records of an index file, by the format: a word up to a NUL,
\* four bytes of offset, four bytes of size
RECURSIVE RecordsOf(_, _)
RecordsOf(bytes, from) ==
    LET nul == FirstNul(bytes, from)
    IN  IF nul = 0 \/ nul + 8 > Len(bytes) THEN <<>>
        ELSE << [word |-> SubSeq(bytes, from, nul - 1),
                 offset |-> SubSeq(bytes, nul + 1, nul + 4),
                 size |-> SubSeq(bytes, nul + 5, nul + 8)] >>
             \o RecordsOf(bytes, nul + 9)

IdxRecords == RecordsOf(idx_bytes, 1)

BadWords == {i \in DOMAIN IdxRecords : ~Utf8Decode(IdxRecords[i].word).ok}

Number(b) == [hi |-> b[1] * 256 + b[2], lo |-> b[3] * 256 + b[4]]

RECURSIVE EntriesOf(_)
EntriesOf(records) ==
    IF records = <<>> THEN <<>>
    ELSE LET r == Head(records)
         IN  (IF Utf8Decode(r.word).ok
              THEN << <<Utf8Decode(r.word).text, Number(r.offset), Number(r.size)>> >>
              ELSE <<>>)
             \o EntriesOf(Tail(records))

ExampleIdx == <<97, 98, 99, 0, 0, 0, 0, 5, 0, 0, 0, 3>>

\* C8: on an index whose words are all valid UTF-8 the parse ends (every
\* iteration returns or moves forward in the file, and never past its end) and
\* returns exactly the complete records in file order, a truncated last record
\* adding nothing; "abc" NUL 00 00 00 05 00 00 00 03 gives the one entry (abc, 5, 3).
C8_ParsesCompleteRecords ==
    /\ [](idx_pos <= Len(idx_bytes))
    /\ [][idx_pc' = "done" \/ idx_pos' > idx_pos]_vars
    /\ [](idx_pc = "done" /\ BadWords = {} =>
            /\ entries = EntriesOf(IdxRecords)
            /\ (idx_bytes = ExampleIdx =>
                   entries = << <<(<<97, 98, 99>>), [hi |-> 0, lo |-> 5],
                                  [hi |-> 0, lo |-> 3]>> >>))

C8_Witness ==
    /\ idx_pc = "done"
    /\ BadWords = {}
    /\ Len(entries) = 2
    /\ entries[1][1] # entries[2][1]
    /\ Len(idx_bytes) > Len(entries[1][1]) + Len(entries[2][1]) + 18 + 5

\* C9: when one record has a word that is not valid UTF-8, the parse returns
\* the entries of the file without that record: every other record keeps its
\* word, offset and size.
C9_DropsOnlyTheBadRecord ==
    idx_pc = "done" /\ Cardinality(BadWords) = 1 => entries = EntriesOf(IdxRecords)

(***************************************************************************)
(* C10: in a parse_stardict_dict run that does not load the cache, every   *)
(* entry is processed once and is extracted or skipped: a read or seek     *)
(* error on an entry is counted as a skip and the loop goes on, the run is *)
(* never aborted, and after the loop extracted_count + skipped_count is    *)
(* the number of entries.                                                  *)
(***************************************************************************)
C10_EveryEntryExtractedOrSkipped ==
    /\ dict_pc # "aborted"
    /\ dict_pc \in {"loop", "done"} => extracted_count + skipped_count = dict_i
    /\ dict_pc = "done" => extracted_count + skipped_count = Len(dict_entries)

(***************************************************************************)
(* C11: every meaning clean_translation returns, from the numbered parts   *)
(* or from the fallback scan, has at least 2 characters, holds a Cyrillic  *)
(* or Latin letter, matches none of the usage patterns and has at most 4   *)
(* words.                                                                  *)
(***************************************************************************)
PassesFilters(meaning) ==
    /\ Len(meaning) >= 2
    /\ \E i \in DOMAIN meaning : IsTargetLetter(meaning[i])
    /\ ~\E pattern \in usage_patterns : Search(Lower(meaning), pattern)
    /\ WordCount(meaning) <= 4

C11_EveryMeaningPassedTheFilters ==
    clean_pc = "returned" =>
        \A i \in DOMAIN text_out.meanings : PassesFilters(text_out.meanings[i])

(***************************************************************************)
(* C12: clean_translation applied to a meaning it returned gives back the  *)
(* list of that one meaning, unchanged, and no usage examples.             *)
(***************************************************************************)
C12_IdempotentOnOwnOutput ==
    clean_pc = "again" =>
        reclean.result = [meanings |-> <<reclean.meaning>>, usage_examples |-> <<>>]

C12_Witness ==
    /\ clean_pc = "again"
    /\ Len(text_out.meanings) >= 2
    /\ reclean.meaning # text_in
    /\ \E i \in DOMAIN text_in : text_in[i] = 46

(***************************************************************************)
(* C13: within each tier the scores never decrease, and the entries of one *)
(* score that a tier holds are in the order they have in the input.        *)
(***************************************************************************)
\* the entries of list with that score, in list order
RECURSIVE WithScore(_, _, _)
WithScore(list, score, n) ==
    IF n = 0 THEN <<>>
    ELSE IF EntryScore(list[n]) = score
    THEN Append(WithScore(list, score, n - 1), list[n])
    ELSE WithScore(list, score, n - 1)

\* the first n elements of a can be found, in order, among the first m of b
RECURSIVE IsSubsequence(_, _, _, _)
IsSubsequence(a, n, b, m) ==
    IF n = 0 THEN TRUE
    ELSE IF m = 0 THEN FALSE
    ELSE IF a[n] = b[m] THEN IsSubsequence(a, n - 1, b, m - 1)
    ELSE IsSubsequence(a, n, b, m - 1)

C13_TiersAscendingAndStable ==
    pc = "leveled" =>
        \A t \in 1..4 :
            /\ \A i, j \in DOMAIN Tiers[t] :
                  i < j => FloatLE(EntryScore(Tiers[t][i]), EntryScore(Tiers[t][j]))
            /\ \A e \in Range(Tiers[t]) :
                  LET same == WithScore(Tiers[t], EntryScore(e), Len(Tiers[t]))
                      input == WithScore(vocabulary, EntryScore(e), Len(vocabulary))
                  IN  IsSubsequence(same, Len(same), input, Len(input))

C13_Witness ==
    /\ pc = "leveled"
    /\ vocabulary # SortByComplexity(vocabulary)
    /\ \E t \in 1..4 : \E i, j \in DOMAIN Tiers[t] :
          /\ i < j
          /\ Tiers[t][i] # Tiers[t][j]
          /\ EntryScore(Tiers[t][i]) = EntryScore(Tiers[t][j])

(***************************************************************************)
(* C14: the tiers are ordered by difficulty: no entry of a later tier has  *)
(* a lower score than an entry of an earlier tier, the entries placed by   *)
(* the round-robin branch included.                                        *)
(***************************************************************************)
C14_TiersOrderedByScore ==
    pc = "leveled" =>
        \A a, b \in 1..4 :
            a < b =>
                \A i \in DOMAIN Tiers[a] : \A j \in DOMAIN Tiers[b] :
                    ~FloatLess(EntryScore(Tiers[b][j]), EntryScore(Tiers[a][i]))

(***************************************************************************)
(* Properties of calculate_word_complexity (SpecScore).                    *)
(***************************************************************************)
SuffixMatches(word) ==
    Cardinality({i \in DOMAIN abstract_suffixes : EndsWith(word, abstract_suffixes[i])})

\* the score in tenths, as the sum of the listed terms
FormulaTenths(entry) ==
    Len(entry.am)
    + 20 * SuffixMatches(entry.am)
    + (IF Hyphen \in Range(entry.am) \/ Len(entry.am) > 15 THEN 15 ELSE 0)
    - (IF "spell" \in DOMAIN entry /\ entry.spell # "" THEN 5 ELSE 0)

\* the part of the score that comes from the suffixes, in tenths
SuffixTenths ==
    score_out.t - FormulaTenths(score_entry) + 20 * SuffixMatches(score_entry.am)

(***************************************************************************)
(* C15 as stated: no word ends with more than one listed suffix, the       *)
(* suffixes add 0 or 2.0 to a score.                                       *)
(***************************************************************************)
C15_SuffixesMutuallyExclusive ==
    score_pc = "returned" =>
        /\ SuffixMatches(score_entry.am) <= 1
        /\ SuffixTenths \in {0, 20}

(***************************************************************************)
(* C15 as the code has it: a word that ends with the last suffix of the    *)
(* list ends with the first one as well and gets 4.0; every other word     *)
(* ends with at most one suffix and gets 0 or 2.0.                         *)
(***************************************************************************)
C15_SuffixesOverlapOnce ==
    score_pc = "returned" =>
        /\ SuffixTenths = 20 * SuffixMatches(score_entry.am)
        /\ SuffixMatches(score_entry.am) \in {0, 1, 2}
        /\ SuffixMatches(score_entry.am) = 2
              <=> EndsWith(score_entry.am, abstract_suffixes[5])
        /\ EndsWith(score_entry.am, abstract_suffixes[5])
              => EndsWith(score_entry.am, abstract_suffixes[1])

C15_Witness ==
    /\ score_pc = "returned"
    /\ EndsWith(score_entry.am, abstract_suffixes[5])
    /\ SuffixTenths = 40

WithinTolerance(spans, y) == {i \in DOMAIN spans : Abs(spans[i].y - y) < 8}

\* found is the text of the first of the runs closest to y among those within
\* the tolerance, None when no run is within it
IsClosestWithin(found, spans, y) ==
    IF WithinTolerance(spans, y) = {} THEN found = None
    ELSE \E k \in WithinTolerance(spans, y) :
            /\ found = spans[k].text
            /\ \A j \in WithinTolerance(spans, y) :
                  /\ Abs(spans[k].y - y) <= Abs(spans[j].y - y)
                  /\ j < k => Abs(spans[k].y - y) < Abs(spans[j].y - y)

\* the column-1 word the matching loop has just finished
MatchedWord == ColumnSpans(text_dict, 1)[arm_i]

MatchedKey ==
    Only({ Only({CleanWord(armenian_word)
                 : armenian_word \in {StripChars(word.text, WordPunctuation)}})
           : word \in {MatchedWord} })

AfterMatch == pdf_pc = "match" /\ arm_i >= 1

\* the gloss and the pronunciation of the word are the closest runs of
\* columns 3 and 2 of the page being read, each chosen on its own
ChosenByDistance ==
    AfterMatch =>
        \A word \in {MatchedWord} :
            /\ \A glosses \in {ColumnSpans(text_dict, 3)} :
                  IsClosestWithin(english_text, glosses, word.y)
            /\ \A pronunciations \in {ColumnSpans(text_dict, 2)} :
                  IsClosestWithin(pronunciation, pronunciations, word.y)

\* a word without a gloss adds nothing; a word with a gloss that passes the
\* word filters of lines 526-542 is in the dictionary after the iteration,
\* whether a pronunciation was found or not, and a new word for which none
\* was found has pronunciation None
KeptByGloss ==
    /\ english_text' = None => pdf_words' = pdf_words
    /\ english_text' # None =>
          \A key \in {MatchedKey'} :
              key # None =>
                  /\ key \in Keys(pdf_words')
                  /\ (pronunciation' = None /\ key \notin Keys(pdf_words)) =>
                        Entry(pdf_words', key).pronunciation = None

(***************************************************************************)
(* C17: for each column-1 word of a page the gloss is a column-3 run of    *)
(* the same page at the least y-distance among the runs closer than the    *)
(* tolerance 8.0, the first of them on a tie; the pronunciation is chosen  *)
(* in the same way among the column-2 runs, independently of the gloss; a  *)
(* word with no gloss within the tolerance adds nothing to the dictionary, *)
(* a word with a gloss and no pronunciation within the tolerance is kept   *)
(* and has no pronunciation.                                               *)
(***************************************************************************)
C17_RowAssociation ==
    [][arm_i' = arm_i + 1 => ChosenByDistance' /\ KeptByGloss]_vars

\* a word between two glosses at the same distance got the first of them, had
\* no pronunciation within the tolerance and is in the dictionary without one
C17_Witness ==
    /\ AfterMatch
    /\ pronunciation = None
    /\ pronunciation_spans # <<>>
    /\ english_text # None
    /\ \E i, j \in WithinTolerance(english_spans, MatchedWord.y) :
          /\ i < j
          /\ english_spans[i].text = english_text
          /\ english_spans[j].text # english_text
          /\ Abs(english_spans[i].y - MatchedWord.y) = Abs(english_spans[j].y - MatchedWord.y)
    /\ MatchedKey \in Keys(pdf_words)
    /\ Entry(pdf_words, MatchedKey).pronunciation = None

\* s without the repetitions of its items
FirstSeen(s) == SubSeqAt(s, {i \in DOMAIN s : \A j \in 1..(i - 1) : s[j] # s[i]})

\* the words accumulated over the pages that differ from key by case only
Variants(key) ==
    SubSeqAt(pdf_words, {i \in DOMAIN pdf_words : Lower(pdf_words[i].k) = Lower(key)})

WithPronunciation(variants) == {i \in DOMAIN variants : variants[i].v.pronunciation # None}

(***************************************************************************)
(* C18: after the merge of the case-insensitive duplicates no two keys of  *)
(* the result are equal under lowercasing; the gloss list of a key is the  *)
(* union, without repetitions and in first-seen order, of the gloss lists  *)
(* of the case variants of the word; its pronunciation is that of the      *)
(* first variant that has one; its spelling is one of the variants and has *)
(* a lowercase letter whenever a variant has one.                          *)
(***************************************************************************)
C18_DuplicatesMerged ==
    pdf_pc = "done" =>
        /\ \A i, j \in DOMAIN pdf_result :
              i # j => Lower(pdf_result[i].k) # Lower(pdf_result[j].k)
        /\ \A w \in Range(pdf_words) :
              \E e \in Range(pdf_result) : Lower(e.k) = Lower(w.k)
        /\ \A e \in Range(pdf_result) :
              /\ Variants(e.k) # <<>>
              /\ e.v.english =
                    FirstSeen(Flatten([i \in DOMAIN Variants(e.k) |->
                                          Variants(e.k)[i].v.english]))
              /\ e.v.pronunciation =
                    IF WithPronunciation(Variants(e.k)) = {} THEN None
                    ELSE Variants(e.k)[CHOOSE i \in WithPronunciation(Variants(e.k)) :
                                          \A j \in WithPronunciation(Variants(e.k)) : i <= j
                                      ].v.pronunciation
              /\ \E i \in DOMAIN Variants(e.k) : Variants(e.k)[i].k = e.k
              /\ (\E i \in DOMAIN Variants(e.k) : HasLowercase(Variants(e.k)[i].k))
                    => HasLowercase(e.k)

\* two case variants with different pronunciations and different gloss lists
\* that share a gloss were merged
C18_Witness ==
    /\ pdf_pc = "done"
    /\ \E e \in Range(pdf_result) :
          /\ Len(Variants(e.k)) = 2
          /\ Variants(e.k)[1].v.pronunciation # None
          /\ Variants(e.k)[2].v.pronunciation # None
          /\ Variants(e.k)[1].v.pronunciation # Variants(e.k)[2].v.pronunciation
          /\ Variants(e.k)[1].v.english # Variants(e.k)[2].v.english
          /\ Range(Variants(e.k)[1].v.english) \cap Range(Variants(e.k)[2].v.english) # {}
          /\ e.k # Variants(e.k)[1].k

(***************************************************************************)
(* Properties of the translation cache (SpecCsv).                          *)
(*                                                                         *)
(* C19: the cache round-trips: for the dict of a run that parsed the data  *)
(* file, non-empty lists of meanings clean_translation returned, what      *)
(* load_from_csv reads from the file save_to_csv wrote is that dict, with  *)
(* the same words and the same lists of meanings.                          *)
(***************************************************************************)
C19_CacheRoundTrips ==
    csv_pc \in {"loaded", "raised"} => csv_pc = "loaded" /\ cached_dict = fresh_dict

====
